---------------------------- MODULE Spec2Model ----------------------------
(***************************************************************************)
(* Verification model of the sprint metrics aggregator, the risk detector  *)
(* and the sprint health score of mid_sprint_report.py, and of the ticket  *)
(* relatedness scorer of ai_ticket_suggester.py.                           *)
(*                                                                         *)
(* Conventions                                                             *)
(*  - a Python str is a sequence of one-character strings, so that         *)
(*    lower(), split(), replace() and the substring test `in` are          *)
(*    computed and not assumed;                                            *)
(*  - an Optional value is <<>> (None) or <<v>>;                           *)
(*  - a datetime is an integer number of ticks, TicksPerDay ticks a day;   *)
(*  - a percentage with one decimal (round(x, 1)) is kept in tenths, a     *)
(*    score before rounding in hundredths: the code's float arithmetic on  *)
(*    these values is exact rational arithmetic on the domains used here.  *)
(***************************************************************************)
EXTENDS Integers, Sequences, FiniteSets, TLC

VARIABLES
    issues,        \* the list handed to compute_metrics / detect_risks
    sprint_start,  \* Optional datetime
    sprint_end,    \* Optional datetime
    now,           \* datetime.now(timezone.utc)
    metrics,       \* result of compute_metrics (or the Metrics input)
    risks,         \* result of detect_risks (or the Risks input)
    health,        \* result of calculate_sprint_health_score
    pc,            \* which results have been computed
    changed_files,        \* pattern_match_tickets: the changed file paths
    current_ticket_info,  \* pattern_match_tickets: Optional reference ticket
    all_tickets,          \* pattern_match_tickets: the candidate list
    results,              \* what each run of pattern_match_tickets returned
    active_sprint,        \* scheduler: whether Jira returns an active or recent sprint
    next_run,             \* scheduler: Optional time the daily job is due next
    published,            \* scheduler: the days on which report generation was fired
    analyzed_tickets_cache,  \* support_ticket_api: the in-memory set of analyzed ticket IDs
    analysis_completed,      \* history: the IDs whose analysis completed in this process
    marker_found,            \* history: the IDs for which the listing found a marker comment
    jira_comments,           \* Jira: the tickets that carry an AI-analysis marker comment
    response,                \* the handler and the status code of the last response
    script,         \* the run-to-completion script or function that is run
    env,            \* the environment variables that are set (and not empty)
    argv,           \* sys.argv[1:]
    remote,         \* the state of the remote system (Jira or Confluence)
    requests_sent,  \* the network requests made, in order, with their outcome
    outcome         \* Optional result: what was returned or raised, or the exit code

reportVars == <<issues, sprint_start, sprint_end, now, metrics, risks, health, pc>>
matchVars == <<changed_files, current_ticket_info, all_tickets, results>>
schedVars == <<active_sprint, next_run, published>>
\* the state of the processes other than the report and the ticket matching
apiVars == <<analyzed_tickets_cache, analysis_completed, marker_found, jira_comments, response>>
scriptVars == <<script, env, argv, remote, requests_sent, outcome>>
restVars == <<schedVars, apiVars, scriptVars>>
vars == <<reportVars, matchVars, restVars>>

-----------------------------------------------------------------------------
(* Bounds of the model *)

MaxIssues == 2
TicksPerDay == 2
MaxDaysLeft == 4
MaxTickets == 2
MaxTopTickets == 11
MaxRare == 2

-----------------------------------------------------------------------------
(* Generic helpers *)

None == <<>>
Some(v) == <<v>>
IsNone(o) == o = <<>>
Val(o) == o[1]

\* the processes other than the report and the ticket matching have not started
ApiIdle ==
    /\ analyzed_tickets_cache = {}
    /\ analysis_completed = {}
    /\ marker_found = {}
    /\ jira_comments = {}
    /\ response = <<>>

ScriptIdle ==
    /\ script = ""
    /\ env = {}
    /\ argv = <<>>
    /\ remote = <<>>
    /\ requests_sent = <<>>
    /\ outcome = <<>>

RestIdle ==
    /\ active_sprint = FALSE
    /\ next_run = <<>>
    /\ published = <<>>
    /\ ApiIdle
    /\ ScriptIdle

Min(a, b) == IF a <= b THEN a ELSE b
Max(a, b) == IF a >= b THEN a ELSE b

Range(s) == {s[i] : i \in 1..Len(s)}

SeqsUpTo(S, n) == UNION {[1..k -> S] : k \in 0..n}

\* Python's round(): nearest integer of num/den (den > 0), ties to even.
RoundHalfEven(num, den) ==
    LET q == num \div den
        r == num % den
    IN  IF 2 * r > den THEN q + 1
        ELSE IF 2 * r < den THEN q
        ELSE IF q % 2 = 0 THEN q ELSE q + 1

\* list.sort(key=...) on the list's integer keys: the positions 1..Len(keys)
\* in ascending key order, equal keys keeping their original order (stable).
RECURSIVE InsertStable(_, _, _)
InsertStable(perm, i, keys) ==
    IF perm = <<>> THEN <<i>>
    ELSE IF keys[i] < keys[perm[Len(perm)]]
         THEN Append(InsertStable(SubSeq(perm, 1, Len(perm) - 1), i, keys),
                     perm[Len(perm)])
         ELSE Append(perm, i)

RECURSIVE SortedPositions(_, _)
SortedPositions(keys, n) ==
    IF n = 0 THEN <<>>
    ELSE InsertStable(SortedPositions(keys, n - 1), n, keys)

RECURSIVE Permuted(_, _)
Permuted(s, perm) ==
    IF perm = <<>> THEN <<>> ELSE <<s[Head(perm)]>> \o Permuted(s, Tail(perm))

StableSort(s, keys) == Permuted(s, SortedPositions(keys, Len(s)))

-----------------------------------------------------------------------------
(* Strings *)

\* str.lower() of one character
LowerChar(c) ==
    CASE c = "A" -> "a" [] c = "B" -> "b" [] c = "C" -> "c" [] c = "D" -> "d"
      [] c = "E" -> "e" [] c = "F" -> "f" [] c = "G" -> "g" [] c = "H" -> "h"
      [] c = "I" -> "i" [] c = "J" -> "j" [] c = "K" -> "k" [] c = "L" -> "l"
      [] c = "M" -> "m" [] c = "N" -> "n" [] c = "O" -> "o" [] c = "P" -> "p"
      [] c = "Q" -> "q" [] c = "R" -> "r" [] c = "S" -> "s" [] c = "T" -> "t"
      [] c = "U" -> "u" [] c = "V" -> "v" [] c = "W" -> "w" [] c = "X" -> "x"
      [] c = "Y" -> "y" [] c = "Z" -> "z"
      [] OTHER -> c

Lower(s) == [i \in 1..Len(s) |-> LowerChar(s[i])]

\* Python's `sub in s`
Contains(s, sub) ==
    \E i \in 0..(Len(s) - Len(sub)) : SubSeq(s, i + 1, i + Len(sub)) = sub

BLOCKED == <<"b", "l", "o", "c", "k", "e", "d">>

S_done == <<"d", "o", "n", "e">>
S_indeterminate == <<"i", "n", "d", "e", "t", "e", "r", "m", "i", "n", "a", "t", "e">>
S_new == <<"n", "e", "w">>
N_Done == <<"D", "o", "n", "e">>
N_InProgress == <<"I", "n", " ", "P", "r", "o", "g", "r", "e", "s", "s">>
N_ToDo == <<"T", "o", " ", "D", "o">>
N_OnHold == <<"O", "n", " ", "H", "o", "l", "d", " ", "-", " ", "B", "l", "o", "c", "k", "e", "d">>
L_Blocked == <<"B", "l", "o", "c", "k", "e", "d">>
L_bug == <<"b", "u", "g">>
L_unblocked == <<"u", "n", "b", "l", "o", "c", "k", "e", "d">>

-----------------------------------------------------------------------------
(* Jira issues                                                             *)
(*   shape   "None"       the list entry is None                           *)
(*           "NoFields"   a dict without the key "fields"                  *)
(*           "NullFields" a dict with "fields": null                       *)
(*           "Dict"       a dict with a "fields" dict                      *)
(*   cat       fields.status.statusCategory.key                            *)
(*   name      fields.status.name                                          *)
(*   pts       the story points field (0 when null or absent)              *)
(*   priority  Optional fields.priority.name                               *)
(*   assignee  Optional fields.assignee                                    *)
(*   labels    fields.labels; labels_null when it is null                  *)
(*   flagged   fields.flagged (False when absent)                          *)
(*   created   Optional fields.created                                     *)

MkIssue(shape, cat, name, pts, priority, assignee, labels, labels_null, flagged, created) ==
    [shape |-> shape, key |-> 0, cat |-> cat, name |-> name, pts |-> pts,
     priority |-> priority, assignee |-> assignee, labels |-> labels,
     labels_null |-> labels_null, flagged |-> flagged, created |-> created]

\* an entry that carries no fields at all
Bare(shape) == MkIssue(shape, <<>>, <<>>, 0, None, None, <<>>, FALSE, FALSE, None)

\* the issue as the n-th issue of the sprint: Jira keys are unique
WithKey(i, n) == [i EXCEPT !.key = n]

HasFields(issue) == issue.shape = "Dict"

\* _status_category
StatusCategory(issue) ==
    IF HasFields(issue) /\ issue.cat # <<>> THEN Lower(issue.cat) ELSE <<"u", "n", "k", "n", "o", "w", "n">>

\* _story_points
StoryPoints(issue) == IF HasFields(issue) THEN issue.pts ELSE 0

\* mutant: a started day counted as a whole day
IssueAgeDaysStarted(issue, t) ==
    IF HasFields(issue) /\ ~IsNone(issue.created)
    THEN (t - Val(issue.created) + TicksPerDay - 1) \div TicksPerDay
    ELSE 0

\* _get_issue_age_days: (now - created).days, 0 without a creation date
IssueAgeDays(issue, t) ==
    IF HasFields(issue) /\ ~IsNone(issue.created)
    THEN (t - Val(issue.created)) \div TicksPerDay
    ELSE 0

\* get_priority (the helper of compute_metrics and of detect_risks)
GetPriority(issue) ==
    IF HasFields(issue) /\ ~IsNone(issue.priority) THEN Val(issue.priority) ELSE "Medium"

IsHighPriority(issue) == GetPriority(issue) \in {"Highest", "High"}

UnknownDaysLeft == 999

\* days_left = (sprint_end - now).days if sprint_end else 999
DaysLeft(end, t) ==
    IF IsNone(end) THEN UnknownDaysLeft ELSE (Val(end) - t) \div TicksPerDay

RECURSIVE SumPoints(_)
SumPoints(s) == IF s = <<>> THEN 0 ELSE StoryPoints(Head(s)) + SumPoints(Tail(s))

-----------------------------------------------------------------------------
(* compute_metrics *)

\* the loop's guard: entries that are None, not a dict, or without fields are skipped
Aggregated(issue) == HasFields(issue)

\* mutant: the label compared without lower()
MetricsBlockedCaseSensitive(issue) ==
    \/ issue.flagged
    \/ Contains(Lower(issue.name), BLOCKED)
    \/ /\ ~issue.labels_null
       /\ \E k \in 1..Len(issue.labels) : issue.labels[k] = BLOCKED

\* the blocked test of compute_metrics
MetricsBlocked(issue) ==
    \/ issue.flagged
    \/ Contains(Lower(issue.name), BLOCKED)
    \/ /\ ~issue.labels_null      \* labels = labels if isinstance(labels, list) else []
       /\ \E k \in 1..Len(issue.labels) : Lower(issue.labels[k]) = BLOCKED

\* mutant: the days-left threshold off by one
MetricsAtRiskUnderThree(issue, days_left) ==
    /\ StatusCategory(issue) = S_indeterminate
    /\ (StoryPoints(issue) >= 5 \/ IsHighPriority(issue))
    /\ days_left < 3

\* the at-risk test of compute_metrics, made in the in-progress branch
MetricsAtRisk(issue, days_left) ==
    /\ StatusCategory(issue) = S_indeterminate
    /\ (StoryPoints(issue) >= 5 \/ IsHighPriority(issue))
    /\ days_left <= 3

PriorityOrder(p) ==
    CASE p = "Highest" -> 0 [] p = "High" -> 1 [] p = "Medium" -> 2
      [] p = "Low" -> 3 [] p = "Lowest" -> 4 [] OTHER -> 2

\* the list length the code uses for counts.total and for the fallback percentage
TotalCount(iss) == Len(iss)

\* mutant: the issue-count fallback left out
CompletionPctPointsOnly(done_points, total_points, n_done, n_total) ==
    IF total_points # 0 THEN RoundHalfEven(1000 * done_points, total_points) ELSE 0

\* completion percentage, in tenths (round(completion, 1))
CompletionPct(done_points, total_points, n_done, n_total) ==
    IF total_points # 0 THEN RoundHalfEven(1000 * done_points, total_points)
    ELSE IF n_total > 0 THEN RoundHalfEven(1000 * n_done, n_total)
    ELSE 0

ComputeMetricsOf(iss, end, t) ==
    LET days_left == DaysLeft(end, t)
        valid     == SelectSeq(iss, Aggregated)
        IsDone(i) == StatusCategory(i) = S_done
        IsProg(i) == StatusCategory(i) = S_indeterminate
        IsTodo(i) == ~IsDone(i) /\ ~IsProg(i)
        AtRisk(i) == MetricsAtRisk(i, days_left)
        HiTodo(i) == IsTodo(i) /\ IsHighPriority(i)
        done      == SelectSeq(valid, IsDone)
        in_prog   == SelectSeq(valid, IsProg)
        todo      == SelectSeq(valid, IsTodo)
        blocked   == SelectSeq(valid, MetricsBlocked)
        at_risk0  == SelectSeq(valid, AtRisk)
        hi_todo0  == SelectSeq(valid, HiTodo)
        \* at_risk.sort(key=points, reverse=True)
        at_risk   == StableSort(at_risk0,
                        [k \in 1..Len(at_risk0) |-> 0 - StoryPoints(at_risk0[k])])
        \* high_priority_todo.sort(key=(priority_order, -points))
        hi_todo   == StableSort(hi_todo0,
                        [k \in 1..Len(hi_todo0) |->
                            1000 * PriorityOrder(GetPriority(hi_todo0[k]))
                            - StoryPoints(hi_todo0[k])])
    IN  [counts |-> [total |-> TotalCount(iss), done |-> Len(done),
                     in_progress |-> Len(in_prog), todo |-> Len(todo),
                     blocked |-> Len(blocked), at_risk |-> Len(at_risk)],
         points |-> [total |-> SumPoints(valid), done |-> SumPoints(done),
                     in_progress |-> SumPoints(in_prog), todo |-> SumPoints(todo)],
         completion_pct |-> CompletionPct(SumPoints(done), SumPoints(valid),
                                          Len(done), TotalCount(iss)),
         blocked_keys |-> [k \in 1..Len(blocked) |-> blocked[k].key],
         at_risk_issues |-> at_risk,
         high_priority_todo |-> hi_todo,
         all_in_progress |-> in_prog]

-----------------------------------------------------------------------------
(* detect_risks *)

\* mutant: the label compared without lower()
RisksBlockedCaseSensitive(issue) ==
    IF ~HasFields(issue) THEN FALSE
    ELSE IF issue.flagged \/ Contains(Lower(issue.name), BLOCKED) THEN TRUE
    ELSE IF issue.labels_null THEN FALSE
    ELSE \E k \in 1..Len(issue.labels) : issue.labels[k] = BLOCKED

\* is_blocked of detect_risks: iterating null labels raises inside the try, and
\* the except clause answers False
RisksBlocked(issue) ==
    IF ~HasFields(issue) THEN FALSE
    ELSE IF issue.flagged \/ Contains(Lower(issue.name), BLOCKED) THEN TRUE
    ELSE IF issue.labels_null THEN FALSE
    ELSE \E k \in 1..Len(issue.labels) : Lower(issue.labels[k]) = BLOCKED

\* `if not issue or not isinstance(issue, dict): continue`
RiskScanned(issue) == issue.shape # "None"

\* issue.get("fields", {}).get("assignee") raises on "fields": null
RisksRaises(iss) == \E k \in 1..Len(iss) : iss[k].shape = "NullFields"

RiskEntry(issue, severity) == [issue |-> issue, severity |-> severity]

NoRisks ==
    [raised |-> FALSE, stale_in_progress |-> <<>>, unassigned_high_priority |-> <<>>,
     overdue_tasks |-> <<>>, blocked_items |-> <<>>, large_items_todo |-> <<>>,
     sprint_goal_risk |-> <<>>]

DetectRisksOf(iss, start, end, t) ==
    LET days_left  == DaysLeft(end, t)
        scanned    == SelectSeq(iss, RiskScanned)
        Stale(i)   == StatusCategory(i) = S_indeterminate /\ IssueAgeDays(i, t) >= 3
        Unasg(i)   == (~HasFields(i) \/ IsNone(i.assignee)) /\ IsHighPriority(i)
        Large(i)   == StatusCategory(i) = S_new /\ StoryPoints(i) >= 8 /\ days_left <= 3
        Goal(i)    == StatusCategory(i) = S_indeterminate /\ StoryPoints(i) >= 5
                      /\ days_left <= 2
        stale      == SelectSeq(scanned, Stale)
        unasg      == SelectSeq(scanned, Unasg)
        large      == SelectSeq(scanned, Large)
        goal       == SelectSeq(scanned, Goal)
        blocked    == SelectSeq(scanned, RisksBlocked)
    IN  IF RisksRaises(iss) THEN [NoRisks EXCEPT !.raised = TRUE]
        ELSE
        [raised |-> FALSE,
         stale_in_progress |->
            [k \in 1..Len(stale) |->
                RiskEntry(stale[k],
                          IF IssueAgeDays(stale[k], t) >= 5 THEN "high" ELSE "medium")],
         unassigned_high_priority |-> [k \in 1..Len(unasg) |-> RiskEntry(unasg[k], "high")],
         overdue_tasks |-> <<>>,
         blocked_items |-> [k \in 1..Len(blocked) |-> RiskEntry(blocked[k], "critical")],
         large_items_todo |-> [k \in 1..Len(large) |-> RiskEntry(large[k], "critical")],
         sprint_goal_risk |-> [k \in 1..Len(goal) |-> RiskEntry(goal[k], "high")]]

-----------------------------------------------------------------------------
(* calculate_sprint_health_score *)

\* mutant: the percentage taken as a fraction, uncapped
CompletionScoreUnscaled(pct) == 300 * pct

\* completion_score = min(30, (completion_pct / 100) * 30), in hundredths
CompletionScore(pct) == Min(3000, 3 * pct)

RECURSIVE Gcd(_, _)
Gcd(a, b) == IF b = 0 THEN a ELSE Gcd(b, a % b)

\* the triples <<completion_pct in tenths, elapsed, sprint_duration>>, with
\* elapsed / sprint_duration in lowest terms (sprint_duration up to 60, elapsed
\* up to three times as much), at which completion_pct - time_pct is exactly
\* 10, 0, -10 or -20 but the double elapsed / sprint_duration * 100 lies above
\* its exact value, so that the double pace_diff lies below the threshold
PaceTiesBelow ==
    {<<900, 11, 10>>, <<1000, 11, 10>>,
     <<350, 11, 20>>, <<450, 11, 20>>, <<550, 11, 20>>, <<650, 11, 20>>,
     <<80, 7, 25>>, <<180, 7, 25>>, <<280, 7, 25>>, <<380, 7, 25>>,
     <<360, 14, 25>>, <<460, 14, 25>>, <<560, 14, 25>>, <<660, 14, 25>>,
     <<920, 28, 25>>,
     <<75, 11, 40>>, <<175, 11, 40>>, <<275, 11, 40>>, <<375, 11, 40>>,
     <<40, 7, 50>>, <<140, 7, 50>>, <<240, 7, 50>>}

\* the double pace_diff lies below the exact completion_pct - time_pct
PaceDiffFallsShort(pct, elapsed, duration) ==
    <<pct, elapsed \div Gcd(elapsed, duration), duration \div Gcd(elapsed, duration)>>
        \in PaceTiesBelow

\* pace_diff >= th, where pace_diff = completion_pct - time_pct and
\* time_pct = elapsed / sprint_duration * 100 if sprint_duration > 0 else 0,
\* all of them doubles
PaceDiffAtLeast(pct, elapsed, duration, th) ==
    IF duration > 0
    THEN \/ pct * duration - 1000 * elapsed > 10 * th * duration
         \/ /\ pct * duration - 1000 * elapsed = 10 * th * duration
            /\ ~PaceDiffFallsShort(pct, elapsed, duration)
    ELSE pct >= 10 * th

\* mutant: the time remaining taken for the time elapsed
PaceScoreRemaining(pct, start, end, t) ==
    IF ~IsNone(start) /\ ~IsNone(end)
    THEN LET duration == Val(end) - Val(start)
             elapsed  == Val(end) - t
         IN  IF PaceDiffAtLeast(pct, elapsed, duration, 10) THEN 25
             ELSE IF PaceDiffAtLeast(pct, elapsed, duration, 0) THEN 20
             ELSE IF PaceDiffAtLeast(pct, elapsed, duration, -10) THEN 15
             ELSE IF PaceDiffAtLeast(pct, elapsed, duration, -20) THEN 10
             ELSE 5
    ELSE 15

PaceScore(pct, start, end, t) ==
    IF ~IsNone(start) /\ ~IsNone(end)
    THEN LET duration == Val(end) - Val(start)
             elapsed  == t - Val(start)
         IN  IF PaceDiffAtLeast(pct, elapsed, duration, 10) THEN 25
             ELSE IF PaceDiffAtLeast(pct, elapsed, duration, 0) THEN 20
             ELSE IF PaceDiffAtLeast(pct, elapsed, duration, -10) THEN 15
             ELSE IF PaceDiffAtLeast(pct, elapsed, duration, -20) THEN 10
             ELSE 5
    ELSE 15

BlockedScore(blocked_count) ==
    IF blocked_count = 0 THEN 15
    ELSE IF blocked_count <= 2 THEN 10
    ELSE IF blocked_count <= 5 THEN 5
    ELSE 0

CriticalRisks(goal) ==
    Len(SelectSeq(goal, LAMBDA r : r.severity = "critical"))

RiskScore(total_risks) ==
    IF total_risks = 0 THEN 15
    ELSE IF total_risks <= 2 THEN 10
    ELSE IF total_risks <= 5 THEN 5
    ELSE 0

\* done < total * 0.3 -> 5, done < total * 0.5 -> 10, else 15
WorkDistributionScore(done, total) ==
    IF 10 * done < 3 * total THEN 5
    ELSE IF 2 * done < total THEN 10
    ELSE 15

\* mutant: int() in place of round()
TotalScoreTruncated(sum) == Min(100, Max(0, sum \div 100))

\* total_score = min(100, max(0, round(total_score))); the sum is in hundredths
TotalScore(sum) == Min(100, Max(0, RoundHalfEven(sum, 100)))

HealthStatus(score) ==
    IF score >= 80 THEN "Excellent"
    ELSE IF score >= 65 THEN "Good"
    ELSE IF score >= 50 THEN "Fair"
    ELSE IF score >= 35 THEN "At Risk"
    ELSE "Critical"

\* the completion percentages p (in tenths) at which (p / 100) * 30 lies halfway
\* between two tenths and the float that round(completion_score, 1) sees lies
\* above the halfway point
Round1TiesUp ==
    {25, 35, 65, 85, 95, 115, 125, 135, 155, 165, 195, 215, 225, 255, 265, 305,
     325, 335, 385, 395, 405, 425, 435, 455, 465, 505, 515, 525, 535, 545, 555,
     625, 635, 645, 655, 665, 685, 725, 735, 745, 785, 795, 805, 825, 885, 895,
     905, 915, 925, 935, 985, 995}

\* breakdown.completion = round(completion_score, 1), in tenths
BreakdownCompletion(pct) ==
    LET cs == CompletionScore(pct)
    IN  IF cs % 10 = 5
        THEN (cs \div 10) + (IF pct \in Round1TiesUp THEN 1 ELSE 0)
        ELSE RoundHalfEven(cs, 10)

NoHealth ==
    [score |-> 0, status |-> "",
     breakdown |-> [completion |-> 0, pace |-> 0, blockers |-> 0, risks |-> 0,
                    velocity |-> 0]]

\* score: an integer; breakdown: the five rounded sub-scores, in tenths
HealthScoreOf(m, r, start, end, t) ==
    LET pct        == m.completion_pct
        completion == CompletionScore(pct)
        pace       == PaceScore(pct, start, end, t)
        blockers   == BlockedScore(Len(r.blocked_items))
        risk       == RiskScore(Len(r.stale_in_progress) + CriticalRisks(r.sprint_goal_risk))
        velocity   == WorkDistributionScore(m.counts.done, m.counts.total)
        score      == TotalScore(completion + 100 * (pace + blockers + risk + velocity))
    IN  [score |-> score, status |-> HealthStatus(score),
         breakdown |-> [completion |-> BreakdownCompletion(pct), pace |-> 10 * pace,
                        blockers |-> 10 * blockers, risks |-> 10 * risk,
                        velocity |-> 10 * velocity]]

-----------------------------------------------------------------------------
(* The report pipeline: the caller builds the issue list, then               *)
(* compute_metrics, detect_risks and calculate_sprint_health_score run in   *)
(* that order (main -> compute_metrics -> format_html -> detect_risks ->    *)
(* calculate_sprint_health_score).  Each function reads the clock itself.   *)

NoMetrics ==
    [counts |-> [total |-> 0, done |-> 0, in_progress |-> 0, todo |-> 0,
                 blocked |-> 0, at_risk |-> 0],
     points |-> [total |-> 0, done |-> 0, in_progress |-> 0, todo |-> 0],
     completion_pct |-> 0, blocked_keys |-> <<>>, at_risk_issues |-> <<>>,
     high_priority_todo |-> <<>>, all_in_progress |-> <<>>]

\* the sprint ends SprintDays days after it starts
SprintDays == MaxDaysLeft + 1
SprintStartTick == 0
SprintEndTick == SprintDays * TicksPerDay
LastTick == SprintEndTick + 1

InitWith(starts, ends, nows) ==
    /\ issues = <<>>
    /\ sprint_start \in starts
    /\ sprint_end \in ends
    /\ now \in nows
    /\ metrics = NoMetrics
    /\ risks = NoRisks
    /\ health = NoHealth
    /\ pc = "input"
    /\ changed_files = <<>>
    /\ current_ticket_info = None
    /\ all_tickets = <<>>
    /\ results = <<>>
    /\ RestIdle

\* the next issue of the sprint, as fetched by get_sprint_issues
AddIssue(pool) ==
    /\ pc = "input"
    /\ Len(issues) < MaxIssues
    /\ \E i \in pool : issues' = Append(issues, WithKey(i, Len(issues) + 1))
    /\ UNCHANGED <<sprint_start, sprint_end, now, metrics, risks, health, pc>>
    /\ UNCHANGED <<matchVars, restVars>>

\* time passes between the calls
Tick ==
    /\ pc \in {"metrics", "risks"}
    /\ now < LastTick
    /\ now' = now + 1
    /\ UNCHANGED <<issues, sprint_start, sprint_end, metrics, risks, health, pc>>
    /\ UNCHANGED <<matchVars, restVars>>

ComputeMetrics ==
    /\ pc = "input"
    /\ metrics' = ComputeMetricsOf(issues, sprint_end, now)
    /\ pc' = "metrics"
    /\ UNCHANGED <<issues, sprint_start, sprint_end, now, risks, health>>
    /\ UNCHANGED <<matchVars, restVars>>

DetectRisks ==
    /\ pc = "metrics"
    /\ risks' = DetectRisksOf(issues, sprint_start, sprint_end, now)
    /\ pc' = IF RisksRaises(issues) THEN "raised" ELSE "risks"
    /\ UNCHANGED <<issues, sprint_start, sprint_end, now, metrics, health>>
    /\ UNCHANGED <<matchVars, restVars>>

CalcHealth ==
    /\ pc = "risks"
    /\ health' = HealthScoreOf(metrics, risks, sprint_start, sprint_end, now)
    /\ pc' = "health"
    /\ UNCHANGED <<issues, sprint_start, sprint_end, now, metrics, risks>>
    /\ UNCHANGED <<matchVars, restVars>>

-----------------------------------------------------------------------------
(* Spec: lists with malformed entries and story points *)

Assignee == Some("dev")

Plain(cat, name, pts) ==
    MkIssue("Dict", cat, name, pts, None, Assignee, <<>>, FALSE, FALSE, None)

MalformedPool == {Bare("None"), Bare("NoFields"), Bare("NullFields")}

PointsPool ==
    {Plain(S_done, N_Done, p) : p \in 0..2}
    \cup {Plain(S_indeterminate, N_InProgress, p) : p \in 0..2}
    \cup {Plain(S_new, N_ToDo, p) : p \in 0..2}

IssuePool == MalformedPool \cup PointsPool

Init ==
    InitWith({Some(SprintStartTick)}, {None, Some(SprintEndTick)},
             {SprintEndTick - TicksPerDay})

Next ==
    \/ AddIssue(IssuePool)
    \/ ComputeMetrics
    \/ DetectRisks
    \/ Tick
    \/ CalcHealth

Spec == Init /\ [][Next]_vars

-----------------------------------------------------------------------------
(* HealthSpec: calculate_sprint_health_score on Metrics and Risks inputs    *)

MaxCount == 3
MaxRiskItems == 6
PctStep == 125

\* completion percentages, in tenths, from 0.0 to 100.0
PctValues == {k * PctStep : k \in 0..(1000 \div PctStep)} \cup {1000}

SomeIssue == WithKey(Plain(S_indeterminate, N_InProgress, 0), 1)

Entries(n, severity) == [k \in 1..n |-> RiskEntry(SomeIssue, severity)]

MetricsInputs ==
    {[NoMetrics EXCEPT !.completion_pct = p, !.counts.total = n, !.counts.done = d] :
        p \in PctValues, n \in 0..MaxCount, d \in 0..MaxCount}

RisksInputs ==
    {[NoRisks EXCEPT !.blocked_items = Entries(b, "critical"),
                     !.stale_in_progress = Entries(s, "medium"),
                     !.sprint_goal_risk = g] :
        b \in 0..MaxRiskItems, s \in 0..MaxRiskItems,
        g \in {<<>>, Entries(1, "high"), Entries(1, "critical")}}

HealthInit ==
    /\ issues = <<>>
    /\ sprint_start \in {None, Some(SprintStartTick)}
    /\ sprint_end \in {None, Some(SprintStartTick), Some(SprintEndTick)}
    /\ now \in {SprintStartTick, SprintEndTick \div 2, SprintEndTick, LastTick}
    /\ metrics \in {m \in MetricsInputs : m.counts.done <= m.counts.total}
    /\ risks \in RisksInputs
    /\ health = NoHealth
    /\ pc = "risks"
    /\ changed_files = <<>>
    /\ current_ticket_info = None
    /\ all_tickets = <<>>
    /\ results = <<>>
    /\ RestIdle

HealthNext == CalcHealth

HealthSpec == HealthInit /\ [][HealthNext]_vars

-----------------------------------------------------------------------------
(* Claims on calculate_sprint_health_score (HealthSpec) *)

\* the sum of the five breakdown components, in tenths
BreakdownSum(h) ==
    h.breakdown.completion + h.breakdown.pace + h.breakdown.blockers
    + h.breakdown.risks + h.breakdown.velocity

Abs(x) == IF x >= 0 THEN x ELSE 0 - x

\* C1: for every Metrics/Risks input and every pair of sprint dates (unknown
\* dates and a zero-length sprint included) the score is an integer in
\* [0,100]; the five sub-scores sum to at most 100 and the total is never
\* negative.
C1_ScoreWithinBounds ==
    pc = "health" =>
        /\ health.score \in 0..100
        /\ BreakdownSum(health) >= 0
        /\ BreakdownSum(health) <= 1000
        /\ CompletionScore(metrics.completion_pct)
             + 10 * (BreakdownSum(health) - health.breakdown.completion) <= 10000

\* C1 witness: a zero-length sprint whose report reaches the full score of 100
C1_Witness ==
    /\ pc = "health"
    /\ sprint_start = sprint_end /\ ~IsNone(sprint_start)
    /\ health.score = 100
    /\ BreakdownSum(health) = 1000

\* C2, as claimed: the five breakdown components sum to the total score.
C2_BreakdownSumsToTotal ==
    pc = "health" => BreakdownSum(health) = 10 * health.score

\* C2, amended: the total is the rounded sum of the unrounded sub-scores, so
\* the five breakdown components sum to within 0.5 of the total score, and to
\* exactly the total when the completion sub-score is a whole number.
C2_BreakdownWithinHalfOfTotal ==
    pc = "health" =>
        /\ Abs(BreakdownSum(health) - 10 * health.score) <= 5
        /\ CompletionScore(metrics.completion_pct) % 100 = 0
              => BreakdownSum(health) = 10 * health.score

\* C2 witness: a report whose breakdown sums to half a point less than its total
C2_Witness ==
    /\ pc = "health"
    /\ 10 * health.score - BreakdownSum(health) = 5

-----------------------------------------------------------------------------
(* Claims on compute_metrics (Spec) *)

\* the aggregate of a Metrics record: counts, points and completion percentage
Aggregate(m) ==
    [counts |-> m.counts, points |-> m.points, completion_pct |-> m.completion_pct]

\* the list without its None / missing-fields entries
WithoutMalformed(iss) == SelectSeq(iss, LAMBDA i : i.shape = "Dict")

\* C3: compute_metrics on a list with None entries or entries missing `fields`
\* does not raise and returns the same aggregate (counts including total,
\* points, completion percentage) as on the list without those entries.
C3_MalformedEntriesAsAbsent ==
    [][ComputeMetrics =>
         Aggregate(metrics') =
            Aggregate(ComputeMetricsOf(WithoutMalformed(issues), sprint_end, now))]_vars

\* C4, as claimed: the completion percentage is exactly done points over total
\* points times 100, or done issues over all issues times 100 when no story
\* points are set and an issue is done.
C4_CompletionIsExactRatio ==
    pc # "input" =>
        /\ metrics.points.total # 0 =>
              metrics.completion_pct * metrics.points.total = 1000 * metrics.points.done
        /\ (metrics.points.total = 0 /\ metrics.counts.done > 0) =>
              metrics.completion_pct * metrics.counts.total = 1000 * metrics.counts.done

\* C4, amended: the completion percentage is that ratio rounded to one decimal
\* place: it differs from points.done / points.total x 100 (or, without story
\* points and with an issue done, from counts.done / counts.total x 100) by
\* at most 0.05.
C4_CompletionIsRoundedRatio ==
    pc # "input" =>
        /\ metrics.points.total # 0 =>
              2 * Abs(metrics.completion_pct * metrics.points.total
                      - 1000 * metrics.points.done) <= metrics.points.total
        /\ (metrics.points.total = 0 /\ metrics.counts.done > 0) =>
              2 * Abs(metrics.completion_pct * metrics.counts.total
                      - 1000 * metrics.counts.done) <= metrics.counts.total

\* C4 witness: one of three story points done, reported as 33.3
C4_Witness ==
    /\ pc = "metrics"
    /\ metrics.points.total = 3 /\ metrics.points.done = 1
    /\ metrics.completion_pct = 333

-----------------------------------------------------------------------------
(* BlockedSpec: issues that are flagged, labelled or in a blocked status *)

InProgress(priority, labels, labels_null, flagged, name) ==
    MkIssue("Dict", S_indeterminate, name, 0, priority, Assignee, labels,
            labels_null, flagged, None)

LabelLists == {<<>>, <<L_Blocked>>, <<L_bug, BLOCKED>>, <<L_unblocked>>}

BlockedPool ==
    {InProgress(None, l, FALSE, f, n) :
        l \in LabelLists, f \in BOOLEAN, n \in {N_InProgress, N_OnHold}}
    \cup {InProgress(None, <<>>, TRUE, f, n) :
        f \in BOOLEAN, n \in {N_InProgress, N_OnHold}}
    \cup {Bare("NoFields")}

BlockedInit ==
    InitWith({Some(SprintStartTick)}, {Some(SprintEndTick)}, {SprintEndTick - TicksPerDay})

BlockedNext ==
    \/ AddIssue(BlockedPool)
    \/ ComputeMetrics
    \/ DetectRisks
    \/ Tick
    \/ CalcHealth

BlockedSpec == BlockedInit /\ [][BlockedNext]_vars

\* how many entries of s satisfy Test
Count(s, Test(_)) == Cardinality({k \in 1..Len(s) : Test(s[k])})

\* the three conditions of the claim, on the issue's own fields
IsFlagged(i) == i.flagged
HasBlockedLabel(i) ==
    ~i.labels_null /\ \E k \in 1..Len(i.labels) : Lower(i.labels[k]) = BLOCKED
HasBlockedStatus(i) == Contains(Lower(i.name), BLOCKED)

-----------------------------------------------------------------------------
(* AtRiskSpec: story points, priorities and days left around the thresholds *)

Prioritised(cat, name, pts, priority) ==
    MkIssue("Dict", cat, name, pts, priority, Assignee, <<>>, FALSE, FALSE, None)

Priorities == {None, Some("Highest"), Some("High"), Some("Low")}

AtRiskPool ==
    {Prioritised(S_done, N_Done, p, q) : p \in {4, 5}, q \in Priorities}
    \cup {Prioritised(S_indeterminate, N_InProgress, p, q) : p \in {4, 5}, q \in Priorities}
    \cup {Prioritised(S_new, N_ToDo, p, q) : p \in {4, 5}, q \in Priorities}

\* four days, between three and four days, and nothing left
AtRiskInit ==
    InitWith({Some(SprintStartTick)}, {None, Some(SprintEndTick)},
             {SprintEndTick - 4 * TicksPerDay, SprintEndTick - 3 * TicksPerDay - 1,
              SprintEndTick})

AtRiskNext ==
    \/ AddIssue(AtRiskPool)
    \/ ComputeMetrics

AtRiskSpec == AtRiskInit /\ [][AtRiskNext]_vars

InAtRisk(m, i) == \E k \in 1..Len(m.at_risk_issues) : m.at_risk_issues[k] = i

\* C6, as claimed: an issue is flagged at-risk exactly when (story points >= 5
\* or priority High/Highest) and the days left are <= 3, whatever its status
\* category.
C6_AtRiskAnyCategory ==
    [][ComputeMetrics =>
         \A k \in 1..Len(issues) :
            InAtRisk(metrics', issues[k]) <=>
               /\ issues[k].pts >= 5 \/ GetPriority(issues[k]) \in {"High", "Highest"}
               /\ DaysLeft(sprint_end, now) <= 3]_vars

\* C6, amended: an issue is flagged at-risk exactly when its status category
\* is in progress (indeterminate) and (story points >= 5 or priority
\* High/Highest) and the whole days left in the sprint are <= 3; at_risk
\* counts these issues.
C6_AtRiskInProgressOnly ==
    [][ComputeMetrics =>
         /\ \A k \in 1..Len(issues) :
               InAtRisk(metrics', issues[k]) <=>
                  /\ Lower(issues[k].cat) = S_indeterminate
                  /\ issues[k].pts >= 5 \/ GetPriority(issues[k]) \in {"High", "Highest"}
                  /\ DaysLeft(sprint_end, now) <= 3
         /\ metrics'.counts.at_risk = Len(metrics'.at_risk_issues)]_vars

\* C6 witness: with three whole days left, an in-progress issue of 5 points is
\* at risk and a done issue of 5 points and High priority is not
C6_Witness ==
    /\ pc = "metrics"
    /\ DaysLeft(sprint_end, now) = 3
    /\ Len(issues) = 2
    /\ Lower(issues[1].cat) = S_indeterminate /\ issues[1].pts = 5
    /\ Lower(issues[2].cat) = S_done /\ issues[2].pts = 5 /\ issues[2].priority = Some("High")
    /\ metrics.at_risk_issues = <<issues[1]>>

-----------------------------------------------------------------------------
(* pattern_match_tickets (ai_ticket_suggester.py): string helpers *)

\* s[a:b] for 0 <= a <= b <= len(s)
Slice(s, a, b) == SubSeq(s, a + 1, b)

\* s.find(sub): the first 0-based position of sub in s, or -1
RECURSIVE FindFrom(_, _, _)
FindFrom(s, sub, i) ==
    IF i + Len(sub) > Len(s) THEN -1
    ELSE IF Slice(s, i, i + Len(sub)) = sub THEN i
    ELSE FindFrom(s, sub, i + 1)

Find(s, sub) == FindFrom(s, sub, 0)

\* s.strip()
Strip(s) ==
    LET kept == {i \in 1..Len(s) : s[i] # " "}
    IN  IF kept = {} THEN <<>>
        ELSE SubSeq(s, CHOOSE i \in kept : \A j \in kept : i <= j,
                       CHOOSE i \in kept : \A j \in kept : i >= j)

\* s.rsplit(' ', 1)[0]
RSplitHead(s) ==
    LET spaces == {i \in 1..Len(s) : s[i] = " "}
    IN  IF spaces = {} THEN s
        ELSE SubSeq(s, 1, (CHOOSE i \in spaces : \A j \in spaces : i >= j) - 1)

\* s.replace(sep, ' ') for each sep of seps, then s.split()
RECURSIVE SplitScan(_, _, _, _)
SplitScan(s, i, cur, seps) ==
    IF i > Len(s) THEN (IF cur = <<>> THEN <<>> ELSE <<cur>>)
    ELSE IF s[i] \in seps
         THEN (IF cur = <<>> THEN <<>> ELSE <<cur>>) \o SplitScan(s, i + 1, <<>>, seps)
         ELSE SplitScan(s, i + 1, Append(cur, s[i]), seps)

SplitWords(s, seps) == SplitScan(s, 1, <<>>, seps \cup {" "})

\* the lower-cased words of s that are longer than min_len
WordsLongerThan(s, seps, min_len) ==
    {Lower(w) : w \in {x \in Range(SplitWords(s, seps)) : Len(x) > min_len}}

-----------------------------------------------------------------------------
(* pattern_match_tickets: keywords, scores and reasons *)

\* keywords from the file paths: parts longer than 2 characters
FileKeywords(files) ==
    UNION {WordsLongerThan(files[k], {"/", "_", "-", "."}, 2) : k \in 1..Len(files)}

\* keywords from the reference ticket's summary and (string, non-empty)
\* description: words longer than 3 characters
TicketKeywords(info) ==
    IF IsNone(info) THEN {}
    ELSE WordsLongerThan(Val(info).summary, {"-", "_"}, 3)
         \cup (IF ~IsNone(Val(info).description) /\ Val(Val(info).description) # <<>>
               THEN WordsLongerThan(Val(Val(info).description), {"-", "_"}, 3)
               ELSE {})

AllKeywords(files, info) == FileKeywords(files) \cup TicketKeywords(info)

\* the orders in which `for keyword in all_keywords` may visit a set
IterationOrders(S) ==
    {p \in [1..Cardinality(S) -> S] : \A i, j \in 1..Cardinality(S) : p[i] = p[j] => i = j}

\* if len(snippet) > max_length: snippet[:max_length].rsplit(' ', 1)[0] + "..."
SnippetLimited(snippet) ==
    IF Len(snippet) > 100
    THEN RSplitHead(Slice(snippet, 0, 100)) \o <<".", ".", ".">>
    ELSE snippet

\* if start > 0: drop what precedes the first space (a cut word)
SnippetCleaned(snippet, start, first_space) ==
    IF start > 0 /\ first_space > 0
    THEN Strip(Slice(snippet, first_space, Len(snippet)))
    ELSE snippet

\* description[start:end].strip(), cleaned and limited
SnippetWindow(description, start, end) ==
    SnippetLimited(SnippetCleaned(Strip(Slice(description, start, end)), start,
                                  Find(Strip(Slice(description, start, end)), <<" ">>)))

\* the snippet around position pos, -1 when the keyword does not occur
SnippetAround(description, keyword, pos) ==
    IF pos = -1 THEN <<>>
    ELSE SnippetWindow(description, Max(0, pos - 40),
                       Min(Len(description), pos + Len(keyword) + 60))

\* extract_description_snippet(description, keyword, max_length=100)
DescriptionSnippet(description, keyword) ==
    IF description = <<>> \/ keyword = <<>> THEN <<>>
    ELSE SnippetAround(description, keyword, Find(Lower(description), Lower(keyword)))

\* mutant: every keyword weighted as a file-path keyword
RECURSIVE KeywordScoreFlat(_, _, _, _, _)
KeywordScoreFlat(order, text_lower, ticket_keywords, w_ticket, w_file) ==
    IF order = <<>> THEN 0
    ELSE (IF Contains(text_lower, Head(order)) THEN w_file ELSE 0)
         + KeywordScoreFlat(Tail(order), text_lower, ticket_keywords, w_ticket, w_file)

\* the loop `for keyword in all_keywords: if keyword in text: score += ...`
RECURSIVE KeywordScore(_, _, _, _, _)
KeywordScore(order, text_lower, ticket_keywords, w_ticket, w_file) ==
    IF order = <<>> THEN 0
    ELSE (IF Contains(text_lower, Head(order))
          THEN (IF Head(order) \in ticket_keywords THEN w_ticket ELSE w_file)
          ELSE 0)
         + KeywordScore(Tail(order), text_lower, ticket_keywords, w_ticket, w_file)

\* description_snippets[0]: the snippet of the first keyword visited that
\* occurs in the description (<<>> when there is none)
RECURSIVE FirstSnippet(_, _)
SnippetOrNext(snippet, rest, description) ==
    IF snippet # <<>> THEN snippet ELSE FirstSnippet(rest, description)

FirstSnippet(order, description) ==
    IF order = <<>> THEN <<>>
    ELSE SnippetOrNext(IF Contains(Lower(description), Head(order))
                       THEN DescriptionSnippet(description, Head(order))
                       ELSE <<>>,
                       Tail(order), description)

Reason(kind, text) == [kind |-> kind, text |-> text]

\* the labels (or components) whose lower() is a keyword, in list order
MatchingNames(names, keywords) == SelectSeq(names, LAMBDA n : Lower(n) \in keywords)

\* match_reasons = reasons[:3]
TopReasons(reasons) == SubSeq(reasons, 1, Min(3, Len(reasons)))

\* mutant: the list returned whole
TopCandidatesUncut(candidates) == candidates

\* candidates[:10]
TopCandidates(candidates) == SubSeq(candidates, 1, Min(10, Len(candidates)))

\* candidates.sort(key=lambda x: x['match_score'], reverse=True)
RECURSIVE NegatedScores(_)
NegatedScores(candidates) ==
    IF candidates = <<>> THEN <<>>
    ELSE <<0 - Val(Head(candidates).match_score)>> \o NegatedScores(Tail(candidates))

\* mutant: sorted ascending and then reversed, which reverses the ties too
Reversed(s) == [k \in 1..Len(s) |-> s[Len(s) + 1 - k]]

SortThenReverse(candidates) ==
    Reversed(StableSort(candidates,
                        [k \in 1..Len(candidates) |-> Val(candidates[k].match_score)]))

SortByScore(candidates) == StableSort(candidates, NegatedScores(candidates))

\* the description is matched only when it is a non-empty string
HasDescription(ticket) == ~IsNone(ticket.description) /\ Val(ticket.description) # <<>>

\* the reason the description gives: its first snippet, if any
DescriptionReasons(snippet) ==
    IF snippet # <<>> THEN <<Reason("snippet", snippet)>> ELSE <<>>

\* "Related to: <summary>", only when no description snippet was found
SummaryReasons(ticket, r_desc, sum_score) ==
    IF r_desc = <<>> /\ sum_score > 0 THEN <<Reason("summary", ticket.summary)>> ELSE <<>>

\* "matching label '<label>'" / "matching component '<component>'"
NameReasons(kind, names) == [k \in 1..Len(names) |-> Reason(kind, names[k])]

DescriptionScore(ticket, order, ticket_keywords) ==
    IF HasDescription(ticket)
    THEN KeywordScore(order, Lower(Val(ticket.description)), ticket_keywords, 5, 3)
    ELSE 0

DescriptionFirstSnippet(ticket, order) ==
    IF HasDescription(ticket) THEN FirstSnippet(order, Val(ticket.description)) ELSE <<>>

\* score and reasons from the parts of one pass of the loop body
MatchFrom(ticket, desc_score, r_desc, sum_score, labels, comps) ==
    [score |-> desc_score + sum_score + 4 * Len(labels) + 4 * Len(comps),
     reasons |-> r_desc \o SummaryReasons(ticket, r_desc, sum_score)
                 \o NameReasons("label", labels) \o NameReasons("component", comps)]

\* score and reasons of one ticket, before the `if score > 0` test
MatchOf(ticket, order, ticket_keywords) ==
    MatchFrom(ticket,
              DescriptionScore(ticket, order, ticket_keywords),
              DescriptionReasons(DescriptionFirstSnippet(ticket, order)),
              KeywordScore(order, Lower(ticket.summary), ticket_keywords, 2, 1),
              MatchingNames(ticket.labels, Range(order)),
              MatchingNames(ticket.components, Range(order)))

\* `if score > 0`: the ticket annotated in place and appended to candidates
Annotated(ticket, m) ==
    IF m.score > 0
    THEN [ticket |-> [ticket EXCEPT !.match_score = Some(m.score),
                                    !.match_reasons = TopReasons(m.reasons)],
          candidate |-> TRUE]
    ELSE [ticket |-> ticket, candidate |-> FALSE]

\* one pass of the scoring loop over a ticket: the ticket as the loop leaves it
\* and whether it was appended to candidates
Scored(ticket, order, ticket_keywords) ==
    Annotated(ticket, MatchOf(ticket, order, ticket_keywords))

RECURSIVE ScoreAll(_, _, _)
ScoreAll(tickets, order, ticket_keywords) ==
    IF tickets = <<>> THEN <<>>
    ELSE <<Scored(Head(tickets), order, ticket_keywords)>>
         \o ScoreAll(Tail(tickets), order, ticket_keywords)

RECURSIVE TicketsOf(_)
TicketsOf(scored) ==
    IF scored = <<>> THEN <<>> ELSE <<Head(scored).ticket>> \o TicketsOf(Tail(scored))

IsCandidate(x) == x.candidate

\* tickets: the candidate list as the call leaves it; out: the list returned
Returned(scored) ==
    [tickets |-> TicketsOf(scored),
     out |-> TopCandidates(SortByScore(TicketsOf(SelectSeq(scored, IsCandidate))))]

\* pattern_match_tickets with the keyword set visited in `order`
PatternMatchOf(files, tickets, info, order) ==
    Returned(ScoreAll(tickets, order, TicketKeywords(info)))

-----------------------------------------------------------------------------
(* pattern_match_tickets: the state machine *)

P_auth_api == <<"a", "p", "i", "/", "a", "u", "t", "h", ".", "p", "y">>
X_AuthToken == <<"A", "u", "t", "h", " ", "t", "o", "k", "e", "n", "-", "r", "e", "f", "r", "e", "s", "h">>
X_Fixapi == <<"F", "i", "x", " ", "a", "p", "i">>
X_refresh_token == <<"r", "e", "f", "r", "e", "s", "h", "_", "t", "o", "k", "e", "n">>
X_Docs == <<"D", "o", "c", "s">>
X_APIauth == <<"A", "P", "I", " ", "a", "u", "t", "h">>
X_TokenFails == <<"T", "o", "k", "e", "n", " ", "r", "e", "f", "r", "e", "s", "h", " ", "f", "a", "i", "l", "s">>
X_Auth == <<"A", "u", "t", "h">>
X_bug == <<"b", "u", "g">>
X_api == <<"a", "p", "i">>
X_AUTH == <<"A", "U", "T", "H">>
X_Refresh == <<"R", "e", "f", "r", "e", "s", "h">>
X_long == <<"a", "u", "t", "h", " ", "h", "a", "n", "d", "l", "e", "r", " ", "r", "e", "w", "r", "i", "t", "t", "e", "n", " ", "f", "o", "r", " ", "t", "h", "e", " ", "g", "a", "t", "e", "w", "a", "y", " ", "s", "e", "r", "v", "i", "c", "e", ",", " ", "t", "o", "k", "e", "n", " ", "e", "x", "p", "i", "r", "y">>
X_longapi == <<"a", "u", "t", "h", " ", "h", "a", "n", "d", "l", "e", "r", " ", "r", "e", "w", "r", "i", "t", "t", "e", "n", " ", "f", "o", "r", " ", "t", "h", "e", " ", "g", "a", "t", "e", "w", "a", "y", " ", "s", "e", "r", "v", "i", "c", "e", ",", " ", "a", "p", "i", " ", "e", "x", "p", "i", "r", "y">>
X_Authapi == <<"A", "u", "t", "h", " ", "a", "p", "i">>

\* a ticket as get_ticket_details / the search returns it, not yet annotated;
\* description is None when it is not a string
Ticket(summary, description, labels, components) ==
    [key |-> 0, summary |-> summary, description |-> description, labels |-> labels,
     components |-> components, match_score |-> None, match_reasons |-> <<>>]

RefTicket(summary, description) == [summary |-> summary, description |-> description]

T_Docs    == Ticket(X_Docs, None, <<>>, <<>>)
T_Full    == Ticket(X_APIauth, Some(X_TokenFails), <<X_Auth, X_bug>>, <<X_api, X_AUTH>>)
T_Long    == Ticket(X_Refresh, Some(X_long), <<>>, <<>>)
T_Api     == Ticket(X_api, Some(<<>>), <<>>, <<>>)
T_Label   == Ticket(X_Auth, None, <<X_api>>, <<>>)
T_Top     == Ticket(X_Authapi, Some(X_longapi), <<X_Auth>>, <<X_api, X_AUTH>>)

MatchInitWith(files, infos) ==
    /\ issues = <<>>
    /\ sprint_start = None
    /\ sprint_end = None
    /\ now = 0
    /\ metrics = NoMetrics
    /\ risks = NoRisks
    /\ health = NoHealth
    /\ pc = "match"
    /\ changed_files \in files
    /\ current_ticket_info \in infos
    /\ all_tickets = <<>>
    /\ results = <<>>
    /\ RestIdle

\* the next ticket of the candidate list
AddTicket(pool, max) ==
    /\ results = <<>>
    /\ Len(all_tickets) < max
    /\ \E t \in pool :
          all_tickets' = Append(all_tickets, [t EXCEPT !.key = Len(all_tickets) + 1])
    /\ UNCHANGED <<changed_files, current_ticket_info, results>>
    /\ UNCHANGED <<reportVars, restVars>>

\* the call returns: the tickets were annotated in place, the caller has the list
Return(r) ==
    /\ all_tickets' = r.tickets
    /\ results' = Append(results, r.out)

\* one run of pattern_match_tickets; the set all_keywords is visited in some order
PatternMatch ==
    /\ Len(results) < 2      \* a run and its re-run
    /\ \E order \in IterationOrders(AllKeywords(changed_files, current_ticket_info)) :
          Return(PatternMatchOf(changed_files, all_tickets, current_ticket_info, order))
    /\ UNCHANGED <<changed_files, current_ticket_info>>
    /\ UNCHANGED <<reportVars, restVars>>

\* MatchSpec: short candidate lists of varied tickets
MatchPool == {T_Docs, T_Full, T_Long, T_Api, T_Label}

MatchInit ==
    MatchInitWith({<<>>, <<P_auth_api>>},
                  {None, Some(RefTicket(X_AuthToken, None)),
                   Some(RefTicket(X_Fixapi, Some(X_refresh_token)))})

MatchNext ==
    \/ AddTicket(MatchPool, MaxTickets)
    \/ PatternMatch

MatchSpec == MatchInit /\ [][MatchNext]_vars

\* TopSpec: candidate lists longer than the top-10 cut: low-scoring tickets
\* with at most MaxRare high-scoring ones among them
TopInit == MatchInitWith({<<P_auth_api>>}, {Some(RefTicket(X_Auth, None))})

AddRareTicket ==
    /\ Cardinality({k \in 1..Len(all_tickets) : all_tickets[k].summary = T_Top.summary})
          < MaxRare
    /\ AddTicket({T_Top}, MaxTopTickets)

TopNext ==
    \/ AddTicket({T_Api}, MaxTopTickets)
    \/ AddRareTicket
    \/ PatternMatch

TopSpec == TopInit /\ [][TopNext]_vars


-----------------------------------------------------------------------------
(* Claims about pattern_match_tickets *)

\* the ranking a run returns: the tickets' keys and scores, in output order
Ranking(out) == [k \in 1..Len(out) |-> <<out[k].key, out[k].match_score>>]

\* the tickets of the candidate list that were kept as candidates
Kept == {k \in 1..Len(all_tickets) : ~IsNone(all_tickets[k].match_score)}

\* C7: two runs of pattern_match_tickets on the same changed files, reference
\* ticket and candidate list return the same tickets with the same match
\* scores in the same order, cut at the same place, and in each output
\* tickets of equal score stand in their original list order.
C7_RerunSameRanking ==
    Len(results) = 2 =>
        /\ Ranking(results[1]) = Ranking(results[2])
        /\ \A r \in 1..2 : \A i, j \in 1..Len(results[r]) :
              (i < j /\ results[r][i].match_score = results[r][j].match_score)
                  => results[r][i].key < results[r][j].key

\* C7 witness: eleven scoring tickets, two runs that visited the keywords in
\* different orders (the reasons differ), a cut to ten and a tie in the output
C7_Witness ==
    /\ Len(results) = 2
    /\ Len(all_tickets) = 11
    /\ Len(results[1]) = 10
    /\ results[1] # results[2]
    /\ \E i, j \in 1..10 : i < j /\ results[1][i].match_score = results[1][j].match_score

Folded(text, fold) == IF fold THEN Lower(text) ELSE text

\* the score the weights give a ticket: 5 (keyword of the reference ticket) or
\* 3 (keyword of the file paths only) per keyword found in the description,
\* 2 or 1 per keyword found in the summary, 4 per label and per component
\* that equals a keyword
WeightedScore(ticket, fold) ==
    LET own    == TicketKeywords(current_ticket_info)
        paths  == FileKeywords(changed_files) \ own
        desc   == IF HasDescription(ticket)
                  THEN Folded(Val(ticket.description), fold) ELSE <<>>
        summ   == Folded(ticket.summary, fold)
        Hits(text, S) == Cardinality({k \in S : Contains(text, k)})
        Equal(names)  == Cardinality({i \in 1..Len(names) :
                                         Folded(names[i], fold) \in own \cup paths})
    IN  5 * Hits(desc, own) + 3 * Hits(desc, paths)
        + 2 * Hits(summ, own) + Hits(summ, paths)
        + 4 * Equal(ticket.labels) + 4 * Equal(ticket.components)

\* after a run every ticket carries the weighted score (none when it is 0)
ScoresAreWeighted(fold) ==
    results # <<>> =>
        \A k \in 1..Len(all_tickets) :
            all_tickets[k].match_score =
                IF WeightedScore(all_tickets[k], fold) > 0
                THEN Some(WeightedScore(all_tickets[k], fold)) ELSE None

\* C9 as stated: a ticket's match_score is 5 or 3 per keyword found in its
\* description, 2 or 1 per keyword found in its summary and 4 per label and
\* per component that exactly equals a keyword, the text taken as written.
C9_ScoreIsWeightedSumAsWritten == ScoresAreWeighted(FALSE)

\* C9 as amended: a ticket's match_score is 5 (keyword of the reference
\* ticket's own text) or 3 per keyword found in its lower-cased description,
\* 2 or 1 per keyword found in its lower-cased summary, plus 4 for each label
\* and each component whose lower-cased form equals a keyword.
C9_ScoreIsWeightedSumIgnoringCase == ScoresAreWeighted(TRUE)

\* C9 witness: a ticket scoring 25 = 5 + 5 (description) + 2 + 1 (summary)
\* + 4 (label) + 4 + 4 (components), next to one that scores nothing
C9_Witness ==
    /\ results # <<>>
    /\ changed_files = <<P_auth_api>>
    /\ current_ticket_info = Some(RefTicket(X_AuthToken, None))
    /\ Len(all_tickets) = 2
    /\ all_tickets[1].summary = T_Full.summary
    /\ all_tickets[1].match_score = Some(25)
    /\ all_tickets[2].summary = T_Docs.summary
    /\ all_tickets[2].match_score = None


-----------------------------------------------------------------------------
(* ScenarioSpec: the report pipeline on a sprint of ten issues, eleven days *)
(* into its fourteen                                                       *)

Dated(cat, name, pts, priority, assignee, created) ==
    MkIssue("Dict", cat, name, pts, priority, assignee, <<>>, FALSE, FALSE, created)

\* the story points of the six done, two in-progress and two todo issues
DonePoints       == {<<3, 3, 3, 4, 4, 4>>, <<1, 2, 3, 5, 5, 5>>, <<21, 0, 0, 0, 0, 0>>}
InProgressPoints == {<<4, 4>>, <<3, 5>>, <<8, 0>>}
ToDoPoints       == {<<2, 3>>, <<5, 0>>}

ScenarioNow == 11 * TicksPerDay
ScenarioEnd == 14 * TicksPerDay

RECURSIVE Keyed(_, _)
Keyed(s, n) == IF s = <<>> THEN <<>> ELSE <<WithKey(Head(s), n)>> \o Keyed(Tail(s), n + 1)

\* the ten issues: stale is the in-progress issue created age days ago, the
\* other one was created today
ScenarioIssues(d, p, t, stale, age, priority, assignee, done_first) ==
    LET done  == [k \in 1..6 |-> Dated(S_done, N_Done, d[k], None, Assignee,
                                       Some(SprintStartTick))]
        prog  == [k \in 1..2 |->
                     Dated(S_indeterminate, N_InProgress, p[k], priority, assignee,
                           Some(ScenarioNow - (IF k = stale THEN age * TicksPerDay ELSE 1)))]
        todo  == [k \in 1..2 |-> Dated(S_new, N_ToDo, t[k], priority, assignee, None)]
    IN  Keyed(IF done_first THEN done \o prog \o todo ELSE todo \o prog \o done, 1)

ScenarioInit ==
    /\ sprint_start = Some(SprintStartTick)
    /\ sprint_end = Some(ScenarioEnd)
    /\ now = ScenarioNow
    /\ metrics = NoMetrics
    /\ risks = NoRisks
    /\ health = NoHealth
    /\ pc = "input"
    /\ changed_files = <<>>
    /\ current_ticket_info = None
    /\ all_tickets = <<>>
    /\ results = <<>>
    /\ RestIdle
    /\ issues \in {ScenarioIssues(d, p, t, stale, age, priority, assignee, done_first) :
                      d \in DonePoints, p \in InProgressPoints, t \in ToDoPoints,
                      stale \in 1..2, age \in {3, 5}, priority \in {None, Some("High")},
                      assignee \in {None, Assignee}, done_first \in BOOLEAN}

ScenarioNext ==
    \/ ComputeMetrics
    \/ DetectRisks
    \/ CalcHealth

ScenarioSpec == ScenarioInit /\ [][ScenarioNext]_vars

\* C10: for a sprint of 10 issues with 6 done (21 points), 2 in progress
\* (8 points) and 2 todo (5 points), 11 of 14 days elapsed, no blocked issue
\* and one stale in-progress item, compute_metrics gives completion 61.8 and
\* calculate_sprint_health_score gives pace 10, blockers 15, risks 10,
\* velocity 15, total score 69 and status "Good".
C10_ScenarioScores ==
    /\ pc # "input" => metrics.completion_pct = 618
    /\ pc = "health" =>
          /\ health.breakdown.pace = 100
          /\ health.breakdown.blockers = 150
          /\ health.breakdown.risks = 100
          /\ health.breakdown.velocity = 150
          /\ health.score = 69
          /\ health.status = "Good"

\* C10 witness: the scenario, scored
C10_Witness ==
    /\ pc = "health"
    /\ Len(issues) = 10
    /\ metrics.counts.done = 6 /\ metrics.points.done = 21
    /\ metrics.counts.in_progress = 2 /\ metrics.points.in_progress = 8
    /\ metrics.counts.todo = 2 /\ metrics.points.todo = 5
    /\ sprint_end = Some(14 * TicksPerDay) /\ now = 11 * TicksPerDay
    /\ Len(risks.blocked_items) = 0
    /\ Len(risks.stale_in_progress) = 1
    /\ health.breakdown.completion = 185
    /\ health.score = 69


-----------------------------------------------------------------------------
(* Claims on the sub-scores of calculate_sprint_health_score (HealthSpec) *)

\* completion percentage minus elapsed-time percentage is at least th, for a
\* sprint of known dates and positive length
DiffAtLeast(th) ==
    metrics.completion_pct * (Val(sprint_end) - Val(sprint_start))
        - 1000 * (now - Val(sprint_start))
    >= 10 * th * (Val(sprint_end) - Val(sprint_start))

\* the pace sub-score by the thresholds
ThresholdPace ==
    IF DiffAtLeast(10) THEN 25
    ELSE IF DiffAtLeast(0) THEN 20
    ELSE IF DiffAtLeast(-10) THEN 15
    ELSE IF DiffAtLeast(-20) THEN 10
    ELSE 5

\* C11: the pace sub-score is 25 when completion percentage minus elapsed-time
\* percentage is >= 10, 20 when >= 0, 15 when >= -10, 10 when >= -20,
\* otherwise 5; and it is 15 whenever the sprint start or end is unknown.
C11_PaceByThresholds ==
    pc = "health" =>
        /\ (IsNone(sprint_start) \/ IsNone(sprint_end)) => health.breakdown.pace = 150
        /\ (~IsNone(sprint_start) /\ ~IsNone(sprint_end)
              /\ Val(sprint_end) > Val(sprint_start))
              => health.breakdown.pace = 10 * ThresholdPace


-----------------------------------------------------------------------------
(* RiskSpec: the report pipeline on issues of varied age and size, two or   *)
(* three days before the sprint ends                                       *)

\* creation dates: none, just under three days ago, three days ago, five days ago
CreatedDates ==
    {None, Some(now - 3 * TicksPerDay + 1), Some(now - 3 * TicksPerDay),
     Some(now - 5 * TicksPerDay)}

RiskPool ==
    {Dated(S_indeterminate, N_InProgress, pts, None, Assignee, created) :
        pts \in {4, 5}, created \in CreatedDates}
    \cup {Dated(S_new, N_ToDo, 5, None, Assignee, created) : created \in CreatedDates}
    \cup {Dated(S_done, N_Done, 5, None, Assignee, created) : created \in CreatedDates}

RiskInit ==
    InitWith({Some(SprintStartTick)}, {Some(SprintEndTick)},
             {SprintEndTick - 2 * TicksPerDay, SprintEndTick - 3 * TicksPerDay})

RiskNext ==
    \/ AddIssue(RiskPool)
    \/ ComputeMetrics
    \/ DetectRisks
    \/ CalcHealth

RiskSpec == RiskInit /\ [][RiskNext]_vars

\* the sprint-goal-risk entries of critical severity
CriticalGoalRisks == {k \in 1..Len(risks.sprint_goal_risk) :
                         risks.sprint_goal_risk[k].severity = "critical"}

\* C12: the risk-mitigation sub-score is 15 when the stale-in-progress items
\* plus the sprint-goal-risk items of critical severity number zero, 10 when
\* at most 2, 5 when at most 5, else 0, and the sprint-goal-risk items that
\* detect_risks produces lower it: a report with such an item (detect_risks
\* gives them all one severity) and no stale item scores below 15.
C12_GoalRiskLowersScore ==
    pc = "health" =>
        /\ health.breakdown.risks =
              10 * (IF Len(risks.stale_in_progress) + Cardinality(CriticalGoalRisks) = 0
                    THEN 15
                    ELSE IF Len(risks.stale_in_progress) + Cardinality(CriticalGoalRisks) <= 2
                    THEN 10
                    ELSE IF Len(risks.stale_in_progress) + Cardinality(CriticalGoalRisks) <= 5
                    THEN 5 ELSE 0)
        /\ (Len(risks.sprint_goal_risk) > 0 /\ Len(risks.stale_in_progress) = 0)
              => health.breakdown.risks < 150


\* the issue is in progress and was created at least `days` days ago
InProgressFor(issue, days) ==
    /\ Lower(issue.cat) = S_indeterminate
    /\ ~IsNone(issue.created)
    /\ now - Val(issue.created) >= days * TicksPerDay

\* the positions of stale_in_progress that list the issue
StaleEntries(issue) ==
    {j \in 1..Len(risks.stale_in_progress) : risks.stale_in_progress[j].issue = issue}

-----------------------------------------------------------------------------
(* scheduler.py: the startup check and the polling loop.  The clock is      *)
(* `now`; the sprint Jira returns has the dates sprint_start and            *)
(* sprint_end.  The job's local time zone is taken to be UTC.               *)

\* schedule.every().day.at("09:00"): the tick of the day at which 09:00 falls
ScheduledOffset == 1

\* datetime.date()
DateOf(t) == t \div TicksPerDay

\* get_sprint_midpoint_date: start + (end - start) / 2, None without both dates
SprintMidpoint ==
    IF IsNone(sprint_start) \/ IsNone(sprint_end) THEN None
    ELSE Some(Val(sprint_start) + (Val(sprint_end) - Val(sprint_start)) \div 2)

\* is_sprint_midpoint_today
IsSprintMidpointToday ==
    ~IsNone(SprintMidpoint) /\ DateOf(now) = DateOf(Val(SprintMidpoint))

\* is_sprint_end_today
IsSprintEndToday ==
    ~IsNone(sprint_end) /\ DateOf(now) = DateOf(Val(sprint_end))

\* the job's next run seen from time t: today's 09:00 when that is still
\* ahead, tomorrow's otherwise
NextRun(t) ==
    IF t % TicksPerDay < ScheduledOffset
    THEN DateOf(t) * TicksPerDay + ScheduledOffset
    ELSE (DateOf(t) + 1) * TicksPerDay + ScheduledOffset

\* check_and_run_midpoint_report: report generation is fired when a sprint is
\* found and today is its midpoint
CheckAndRun == active_sprint /\ IsSprintMidpointToday

\* the days on which report generation was fired, after a check
AfterCheck(fires) == IF fires THEN Append(published, DateOf(now)) ELSE published

\* __main__ up to the loop: the job is scheduled, then the initial check runs
\* the report when today is the midpoint
SchedStart ==
    /\ pc = "startup"
    /\ next_run' = Some(NextRun(now))
    /\ published' = AfterCheck(active_sprint /\ IsSprintMidpointToday /\ CheckAndRun)
    /\ pc' = "loop"
    /\ UNCHANGED <<issues, sprint_start, sprint_end, now, metrics, risks, health>>
    /\ UNCHANGED <<matchVars, active_sprint, apiVars, scriptVars>>

\* one turn of the loop: schedule.run_pending() runs the job when it is due,
\* then time.sleep(60)
SchedLoop ==
    /\ pc = "loop"
    /\ IF now >= Val(next_run)
       THEN /\ published' = AfterCheck(CheckAndRun)
            /\ next_run' = Some(NextRun(now))
       ELSE UNCHANGED <<next_run, published>>
    /\ \E slept \in {0, 1} : now' = Min(now + slept, LastTick)
    /\ UNCHANGED <<issues, sprint_start, sprint_end, metrics, risks, health, pc>>
    /\ UNCHANGED <<matchVars, active_sprint, apiVars, scriptVars>>

SchedInit ==
    /\ issues = <<>>
    /\ sprint_start = Some(SprintStartTick)
    /\ sprint_end \in {None, Some(SprintEndTick)}
    /\ now \in 0..LastTick
    /\ metrics = NoMetrics
    /\ risks = NoRisks
    /\ health = NoHealth
    /\ pc = "startup"
    /\ changed_files = <<>>
    /\ current_ticket_info = None
    /\ all_tickets = <<>>
    /\ results = <<>>
    /\ active_sprint \in BOOLEAN
    /\ next_run = None
    /\ published = <<>>
    /\ ApiIdle
    /\ ScriptIdle

SchedNext ==
    \/ SchedStart
    \/ SchedLoop

SchedSpec == SchedInit /\ [][SchedNext]_vars

\* C14: over any run of the scheduler process (the startup check followed by
\* the polling loop) report generation is fired at most once per calendar day.
C14_AtMostOncePerDay ==
    \A i, j \in 1..Len(published) : published[i] = published[j] => i = j

\* today's check is behind the running scheduler: it is past 09:00 and the job
\* is due again only on a later day
CheckedToday ==
    /\ pc = "loop"
    /\ active_sprint
    /\ now % TicksPerDay >= ScheduledOffset
    /\ Val(next_run) > now

\* C15: while the scheduler is running, a day whose date matches the sprint
\* end date, as well as one matching the sprint midpoint, causes the
\* scheduler's check to fire report generation.
C15_FiresOnMidpointAndEnd ==
    (CheckedToday /\ (IsSprintMidpointToday \/ IsSprintEndToday))
        => \E i \in 1..Len(published) : published[i] = DateOf(now)

\* the same for the midpoint alone
FiresOnMidpoint ==
    (CheckedToday /\ IsSprintMidpointToday)
        => \E i \in 1..Len(published) : published[i] = DateOf(now)

(***************************************************************************)
(* support_ticket_api.py: the request handlers that touch the in-memory    *)
(* set of analyzed ticket IDs.  Requests are handled one at a time.        *)
(***************************************************************************)

\* the report and the ticket matching have not started
ReportIdle ==
    /\ issues = <<>>
    /\ sprint_start = None
    /\ sprint_end = None
    /\ now = 0
    /\ metrics = NoMetrics
    /\ risks = NoRisks
    /\ health = NoHealth

MatchIdle ==
    /\ changed_files = <<>>
    /\ current_ticket_info = None
    /\ all_tickets = <<>>
    /\ results = <<>>

SchedIdle ==
    /\ active_sprint = FALSE
    /\ next_run = None
    /\ published = <<>>

\* the issues the search `project = "AS"` returns
ProjectIssues == {"AS-1", "AS-2"}

\* the ticket IDs a request can carry; "" stands for a missing or empty ID
RequestIds == ProjectIssues \cup {"AUT-3", ""}

\* the webhook events Jira sends
WebhookEvents == {"jira:issue_created", "jira:issue_updated", "jira:issue_deleted"}

\* the status codes of a failed search request
SearchErrors == {401, 503}

\* get_analyzed_tickets: the issues of the listing that are not in the cache
\* and carry a comment with an AI-analysis marker
MarkedIssuesAny == {key \in ProjectIssues : key \notin analyzed_tickets_cache}
MarkedIssues ==
    {key \in ProjectIssues : key \notin analyzed_tickets_cache /\ key \in jira_comments}

\* POST /api/analyze-jira-ticket
AnalyzeJiraTicket ==
    /\ pc = "serving"
    /\ \E ticket_id \in RequestIds, update_jira, fetched, analysed, comment_added \in BOOLEAN :
          IF ticket_id = ""
          THEN /\ response' = <<"analyze_jira_ticket", 400>>
               /\ UNCHANGED <<analyzed_tickets_cache, analysis_completed, jira_comments>>
          ELSE IF ~fetched
          THEN /\ response' = <<"analyze_jira_ticket", 404>>
               /\ UNCHANGED <<analyzed_tickets_cache, analysis_completed, jira_comments>>
          ELSE IF ~analysed
          THEN /\ response' = <<"analyze_jira_ticket", 500>>
               /\ UNCHANGED <<analyzed_tickets_cache, analysis_completed, jira_comments>>
          ELSE /\ analysis_completed' = analysis_completed \cup {ticket_id}
               /\ jira_comments' = IF update_jira /\ comment_added
                                   THEN jira_comments \cup {ticket_id}
                                   ELSE jira_comments
               /\ analyzed_tickets_cache' = analyzed_tickets_cache \cup {ticket_id}
               /\ response' = <<"analyze_jira_ticket", 200>>
    /\ UNCHANGED <<reportVars, matchVars, schedVars, scriptVars, marker_found>>

\* POST /api/jira-webhook: after the analysis the handler calls
\* support_analyzer.suggest_developer, which SupportTicketAnalyzer does not
\* have; the AttributeError is answered with 500 before the cache is reached
WebhookResponse(status, webhook_event, ticket_id, fetched) ==
    <<"jira_webhook", status, webhook_event, ticket_id, fetched>>

JiraWebhook ==
    /\ pc = "serving"
    /\ \E webhook_event \in WebhookEvents, ticket_id \in RequestIds, fetched, analysed \in BOOLEAN :
          IF webhook_event \notin {"jira:issue_created", "jira:issue_updated"}
          THEN /\ response' = WebhookResponse(200, webhook_event, ticket_id, FALSE)
               /\ UNCHANGED analysis_completed
          ELSE IF ticket_id = ""
          THEN /\ response' = WebhookResponse(400, webhook_event, ticket_id, FALSE)
               /\ UNCHANGED analysis_completed
          ELSE IF ~fetched \/ ~analysed
          THEN /\ response' = WebhookResponse(500, webhook_event, ticket_id, fetched)
               /\ UNCHANGED analysis_completed
          ELSE /\ analysis_completed' = analysis_completed \cup {ticket_id}
               /\ response' = WebhookResponse(500, webhook_event, ticket_id, TRUE)
    /\ UNCHANGED <<reportVars, matchVars, schedVars, scriptVars>>
    /\ UNCHANGED <<analyzed_tickets_cache, marker_found, jira_comments>>

\* GET /api/analyzed-tickets
GetAnalyzedTickets ==
    /\ pc = "serving"
    /\ \E status_code \in SearchErrors \cup {200} :
          IF status_code # 200
          THEN /\ response' = <<"get_analyzed_tickets", status_code>>
               /\ UNCHANGED <<analyzed_tickets_cache, marker_found>>
          ELSE /\ marker_found' = marker_found \cup
                      {key \in ProjectIssues \ analyzed_tickets_cache : key \in jira_comments}
               /\ analyzed_tickets_cache' = analyzed_tickets_cache \cup MarkedIssues
               /\ response' = <<"get_analyzed_tickets", 200>>
    /\ UNCHANGED <<reportVars, matchVars, schedVars, scriptVars, analysis_completed, jira_comments>>

\* the server has started: the cache is empty, whatever comments Jira holds
ApiInit ==
    /\ ReportIdle
    /\ MatchIdle
    /\ SchedIdle
    /\ ScriptIdle
    /\ pc = "serving"
    /\ analyzed_tickets_cache = {}
    /\ analysis_completed = {}
    /\ marker_found = {}
    /\ jira_comments \in SUBSET ProjectIssues
    /\ response = <<>>

ApiNext ==
    \/ AnalyzeJiraTicket
    \/ JiraWebhook
    \/ GetAnalyzedTickets

ApiSpec == ApiInit /\ [][ApiNext]_vars

PageTitles == {"parent", "report"}

\* the version numbers a page of the space starts with
MaxVersion == 2

Request(method, title, ok) == [method |-> method, title |-> title, ok |-> ok]

ReturnedPage(page_id) == Some([kind |-> "returned", page_id |-> page_id])
RaisedError == Some([kind |-> "raised", page_id |-> None])

\* find_existing_page: the page of that title, None when there is none or
\* when the request failed (ConfluenceUploader._request prints a
\* RequestException, raise_for_status on a non-2xx answer included, and
\* returns None)
FindExistingPage(title, ok) == IF ok THEN remote[title] ELSE None

\* create_page: Confluence refuses a second page of the same title
Creates(title, ok) == ok /\ IsNone(remote[title])

\* create_page returns the new page's id, None when the request failed
CreatePage(title, ok) == IF Creates(title, ok) THEN Some(title) ELSE None

\* the pages after the requests of publish_to_confluence
AfterParent(okFind, okCreate) ==
    IF IsNone(FindExistingPage("parent", okFind)) /\ Creates("parent", okCreate)
    THEN [remote EXCEPT !["parent"] = Some(1)]
    ELSE remote

AfterReport(pages, okFind, okWrite) ==
    IF IsNone(FindExistingPage("report", okFind))
    THEN IF Creates("report", okWrite) THEN [pages EXCEPT !["report"] = Some(1)] ELSE pages
    ELSE IF okWrite THEN [pages EXCEPT !["report"] = Some(Val(remote["report"]) + 1)] ELSE pages

\* the requests publish_to_confluence makes, in order
ParentRequests(okFind, okCreate) ==
    IF IsNone(FindExistingPage("parent", okFind))
    THEN <<Request("GET", "parent", okFind), Request("POST", "parent", Creates("parent", okCreate))>>
    ELSE <<Request("GET", "parent", okFind)>>

ReportRequests(okFind, okWrite) ==
    IF IsNone(FindExistingPage("report", okFind))
    THEN <<Request("GET", "report", okFind), Request("POST", "report", Creates("report", okWrite))>>
    ELSE <<Request("GET", "report", okFind), Request("PUT", "report", okWrite)>>

\* the page id the URL is built from: the existing page's after update_page
\* (whose result is not looked at), create_page's result otherwise
PublishedPageId(okFind, okWrite) ==
    IF IsNone(FindExistingPage("report", okFind))
    THEN CreatePage("report", okWrite)
    ELSE Some("report")

\* publish_to_confluence: an answer that is not JSON makes response.json()
\* raise, and any exception is printed and re-raised
PublishToConfluence ==
    /\ pc = "start"
    /\ script = "publish_to_confluence"
    /\ \E okParent, okCreateParent, okFind, okWrite, parsed \in BOOLEAN :
          IF okParent /\ ~parsed
          THEN /\ requests_sent' = <<Request("GET", "parent", okParent)>>
               /\ outcome' = RaisedError
               /\ UNCHANGED remote
          ELSE /\ requests_sent' = ParentRequests(okParent, okCreateParent)
                                       \o ReportRequests(okFind, okWrite)
               /\ remote' = AfterReport(AfterParent(okParent, okCreateParent), okFind, okWrite)
               /\ outcome' = ReturnedPage(PublishedPageId(okFind, okWrite))
    /\ pc' = "done"
    /\ UNCHANGED <<issues, sprint_start, sprint_end, now, metrics, risks, health>>
    /\ UNCHANGED <<matchVars, schedVars, apiVars, script, env, argv>>

\* update_confluence_page: get_page_details and the PUT both raise_for_status,
\* nothing is returned
UpdateConfluencePage ==
    /\ pc = "start"
    /\ script = "update_confluence_page"
    /\ \E okGet, okPut \in BOOLEAN :
          IF ~okGet \/ IsNone(remote["report"])
          THEN /\ requests_sent' = <<Request("GET", "report", FALSE)>>
               /\ outcome' = RaisedError
               /\ UNCHANGED remote
          ELSE /\ requests_sent' = <<Request("GET", "report", TRUE), Request("PUT", "report", okPut)>>
               /\ remote' = IF okPut THEN [remote EXCEPT !["report"] = Some(Val(remote["report"]) + 1)]
                                     ELSE remote
               /\ outcome' = IF okPut THEN ReturnedPage(None) ELSE RaisedError
    /\ pc' = "done"
    /\ UNCHANGED <<issues, sprint_start, sprint_end, now, metrics, risks, health>>
    /\ UNCHANGED <<matchVars, schedVars, apiVars, script, env, argv>>

ConfInit ==
    /\ ReportIdle
    /\ MatchIdle
    /\ SchedIdle
    /\ ApiIdle
    /\ pc = "start"
    /\ script \in {"publish_to_confluence", "update_confluence_page"}
    /\ env = {}
    /\ argv = <<>>
    /\ remote \in [PageTitles -> {None} \cup {Some(v) : v \in 1..MaxVersion}]
    /\ requests_sent = <<>>
    /\ outcome = None

ConfNext ==
    \/ PublishToConfluence
    \/ UpdateConfluencePage

ConfSpec == ConfInit /\ [][ConfNext]_vars

\* the request that updates or creates the report page failed
WriteFailed ==
    \E i \in 1..Len(requests_sent) :
        /\ requests_sent[i].method \in {"PUT", "POST"}
        /\ requests_sent[i].title = "report"
        /\ ~requests_sent[i].ok

\* C17: when the update or creation request of a page failed with a non-2xx
\* status, the error reaches the caller: neither publish_to_confluence nor
\* update_confluence_page returns a result for that page.
C17_FailedWriteIsRaised ==
    (script \in {"publish_to_confluence", "update_confluence_page"} /\ pc = "done" /\ WriteFailed)
        => Val(outcome).kind = "raised"

\* the half of C17 that is about update_confluence_page
UpdateConfluencePageRaises ==
    (script = "update_confluence_page" /\ pc = "done" /\ WriteFailed)
        => Val(outcome).kind = "raised"

(***************************************************************************)
(* Configuration from the environment: what a script does at import or     *)
(* construction time and whether its first network request is sent.        *)
(* mid_sprint_report.py (module lines 22-32, main), JiraTicketFetcher      *)
(* (__init__, fetch_ticket) and ai_asignee.py (module lines 13-26,         *)
(* fetch_done_issue_keys; JIRA_BASE and OPENAI_API_KEY are taken as set).  *)
(***************************************************************************)

ConfigScripts == {"mid_sprint_report", "jira_ticket_fetcher", "ai_asignee"}

\* the credential and endpoint variables a script reads without a usable default
RequiredVars(s) ==
    CASE s = "mid_sprint_report" -> {"CONFLUENCE_URL", "CONFLUENCE_USER", "CONFLUENCE_API_TOKEN"}
      [] s = "jira_ticket_fetcher" -> {"JIRA_USERNAME", "JIRA_API_TOKEN"}
      [] s = "ai_asignee" -> {"JIRA_EMAIL", "JIRA_API_TOKEN_SUPP"}

EnvNames == UNION {RequiredVars(s) : s \in ConfigScripts}

\* the variables whose absence the script's import or constructor raises on:
\* only mid_sprint_report has such a test (`if not all([...]): raise`),
\* JiraTicketFetcher falls back to '' and ai_asignee keeps None
CheckedVars(s) ==
    IF s = "mid_sprint_report"
    THEN {"CONFLUENCE_URL", "CONFLUENCE_USER", "CONFLUENCE_API_TOKEN"}
    ELSE {}

\* import of the module, or construction of the client object
ImportScript ==
    /\ pc = "start"
    /\ script \in ConfigScripts
    /\ IF CheckedVars(script) \subseteq env
       THEN pc' = "imported" /\ UNCHANGED outcome
       ELSE pc' = "config_error" /\ outcome' = RaisedError
    /\ UNCHANGED <<issues, sprint_start, sprint_end, now, metrics, risks, health>>
    /\ UNCHANGED <<matchVars, schedVars, apiVars, script, env, argv, remote, requests_sent>>

\* the first request of the script is sent with whatever credentials were read
FirstRequest ==
    /\ pc = "imported"
    /\ script \in ConfigScripts
    /\ \E ok \in BOOLEAN :
          requests_sent' = <<Request(IF script = "ai_asignee" THEN "POST" ELSE "GET", script, ok)>>
    /\ pc' = "called"
    /\ UNCHANGED <<issues, sprint_start, sprint_end, now, metrics, risks, health>>
    /\ UNCHANGED <<matchVars, schedVars, apiVars, script, env, argv, remote, outcome>>

ConfigInit ==
    /\ ReportIdle
    /\ MatchIdle
    /\ SchedIdle
    /\ ApiIdle
    /\ pc = "start"
    /\ script \in ConfigScripts
    /\ env \in SUBSET EnvNames
    /\ argv = <<>>
    /\ remote = <<>>
    /\ requests_sent = <<>>
    /\ outcome = None

ConfigNext ==
    \/ ImportScript
    \/ FirstRequest

ConfigSpec == ConfigInit /\ [][ConfigNext]_vars

\* C18: in every script a missing required credential or endpoint variable
\* raises a configuration error at import or construction time, so that no
\* network request is ever sent with a required variable missing.
C18_MissingVarStopsBeforeNetwork ==
    /\ (pc # "start" /\ ~(RequiredVars(script) \subseteq env)) => pc = "config_error"
    /\ requests_sent # <<>> => RequiredVars(script) \subseteq env

\* the half of C18 that is about mid_sprint_report
MidSprintReportChecksConfig ==
    script = "mid_sprint_report" =>
        /\ (pc # "start" /\ ~(RequiredVars(script) \subseteq env)) => pc = "config_error"
        /\ requests_sent # <<>> => RequiredVars(script) \subseteq env

-----------------------------------------------------------------------------
\* C19: a Jira issue with missing or null fields never makes the report
\* generation raise: compute_metrics, detect_risks and the health score
\* complete on every issue list.
C19_ReportNeverRaises ==
    /\ pc # "raised"
    /\ ~risks.raised

(***************************************************************************)
(* jira_ticket_manager.py: main, run to completion.  remote is the world   *)
(* outside the process: the Jira ticket (its Optional status, the statuses *)
(* its workflow offers a transition to) and the git checkout (the current  *)
(* branch, whether it exists on origin).  Status names are compared after  *)
(* lower(); the names used here are in one spelling each.                  *)
(***************************************************************************)

TicketKey == "KAN-1"

StatusNames == {"To Do", "In Progress", "Review", "Done"}

\* git rev-parse --abbrev-ref HEAD: None outside a repository
Branches == {None, Some("main"), Some("feature/KAN-1-login")}

\* sys.argv[1:]
ArgvValues ==
    {<<>>, <<TicketKey>>, <<TicketKey, "Done", "now">>}
    \cup {<<TicketKey, status>> : status \in StatusNames \ {"To Do"}}

\* validate_credentials, before any request: all of url, user and token are set
\* (JIRA_URL has a default)
HasCredentials == {"JIRA_USER", "JIRA_API_TOKEN"} \subseteq env

\* extract_ticket_key: the first PROJECT-NUMBER of the branch name, upper case
ExtractTicketKey(branch) ==
    IF branch = Some("feature/KAN-1-login") THEN Some(TicketKey) ELSE None

\* check_branch_status for a branch that is not main, master or develop
CheckBranchStatus == IF remote.pushed THEN "Review" ELSE "In Progress"

\* get_ticket_info: the ticket's status, None on 404, another status or an exception
GetTicketInfo(okInfo) == IF okInfo THEN remote.ticket_status ELSE None

\* get_available_transitions: [] when the request failed
AvailableTransitions(okList) == IF okList THEN remote.transitions ELSE {}

\* transition_ticket: True when a matching transition was found and the POST
\* was answered with 204
TransitionTicket(target, okList, okPost) ==
    target \in AvailableTransitions(okList) /\ okPost

TransitionRequests(target, okList, okPost) ==
    IF target \in AvailableTransitions(okList)
    THEN <<Request("GET", "transitions", okList), Request("POST", "transitions", okPost)>>
    ELSE <<Request("GET", "transitions", okList)>>

\* manual_update_ticket: the transition is attempted whatever the current status
ManualUpdateTicket(target, okInfo, okList, okPost) ==
    ~IsNone(GetTicketInfo(okInfo)) /\ TransitionTicket(target, okList, okPost)

ManualRequests(target, okInfo, okList, okPost) ==
    IF IsNone(GetTicketInfo(okInfo))
    THEN <<Request("GET", "issue", okInfo)>>
    ELSE <<Request("GET", "issue", okInfo)>> \o TransitionRequests(target, okList, okPost)

\* auto_update_ticket: nothing is sent when the ticket is in the target status
AutoUpdateTicket(okInfo, okList, okPost) ==
    /\ ~IsNone(ExtractTicketKey(remote.branch))
    /\ ~IsNone(GetTicketInfo(okInfo))
    /\ \/ Val(GetTicketInfo(okInfo)) = CheckBranchStatus
       \/ TransitionTicket(CheckBranchStatus, okList, okPost)

AutoRequests(okInfo, okList, okPost) ==
    IF IsNone(ExtractTicketKey(remote.branch)) THEN <<>>
    ELSE IF IsNone(GetTicketInfo(okInfo)) THEN <<Request("GET", "issue", okInfo)>>
    ELSE IF Val(GetTicketInfo(okInfo)) = CheckBranchStatus THEN <<Request("GET", "issue", okInfo)>>
    ELSE <<Request("GET", "issue", okInfo)>> \o TransitionRequests(CheckBranchStatus, okList, okPost)

\* the status the run asks for: argv[2], or the one derived from the branch
TargetStatus ==
    IF Len(argv) >= 2 THEN Some(argv[2])
    ELSE IF Len(argv) = 0 /\ ~IsNone(ExtractTicketKey(remote.branch)) THEN Some(CheckBranchStatus)
    ELSE None

\* main after validate_credentials: the success flag and the requests
Success(okInfo, okList, okPost) ==
    IF Len(argv) >= 2 THEN ManualUpdateTicket(argv[2], okInfo, okList, okPost)
    ELSE AutoUpdateTicket(okInfo, okList, okPost)

UpdateRequests(okInfo, okList, okPost) ==
    IF Len(argv) >= 2 THEN ManualRequests(argv[2], okInfo, okList, okPost)
    ELSE AutoRequests(okInfo, okList, okPost)

Transitioned(reqs) ==
    \E i \in 1..Len(reqs) : reqs[i].method = "POST" /\ reqs[i].ok

Exit(code) == Some([kind |-> "exit", code |-> code])

JiraTicketManagerMain ==
    /\ pc = "start"
    /\ script = "jira_ticket_manager"
    /\ \E okMyself, okInfo, okList, okPost \in BOOLEAN :
          IF ~HasCredentials
          THEN /\ requests_sent' = <<>>
               /\ outcome' = Exit(1)
               /\ UNCHANGED remote
          ELSE IF ~okMyself
          THEN /\ requests_sent' = <<Request("GET", "myself", FALSE)>>
               /\ outcome' = Exit(1)
               /\ UNCHANGED remote
          ELSE IF Len(argv) = 1
          THEN /\ requests_sent' = <<Request("GET", "myself", TRUE)>>
               /\ outcome' = Exit(1)
               /\ UNCHANGED remote
          ELSE /\ requests_sent' = <<Request("GET", "myself", TRUE)>>
                                       \o UpdateRequests(okInfo, okList, okPost)
               /\ outcome' = Exit(IF Success(okInfo, okList, okPost) THEN 0 ELSE 1)
               /\ remote' = IF Transitioned(UpdateRequests(okInfo, okList, okPost))
                            THEN [remote EXCEPT !.ticket_status = TargetStatus]
                            ELSE remote
    /\ pc' = "done"
    /\ UNCHANGED <<issues, sprint_start, sprint_end, now, metrics, risks, health>>
    /\ UNCHANGED <<matchVars, schedVars, apiVars, script, env, argv>>

ManagerInit ==
    /\ ReportIdle
    /\ MatchIdle
    /\ SchedIdle
    /\ ApiIdle
    /\ pc = "start"
    /\ script = "jira_ticket_manager"
    /\ env \in SUBSET {"JIRA_USER", "JIRA_API_TOKEN"}
    /\ argv \in ArgvValues
    /\ remote \in [ticket_status : {None} \cup {Some(s) : s \in StatusNames},
                   transitions : SUBSET (StatusNames \ {"To Do"}),
                   branch : Branches,
                   pushed : BOOLEAN]
    /\ requests_sent = <<>>
    /\ outcome = None

ManagerNext == JiraTicketManagerMain

ManagerSpec == ManagerInit /\ [][ManagerNext]_vars

\* the ticket was in the target status when the run looked at it
AlreadyInTarget ==
    /\ \E i \in 1..Len(requests_sent) :
          requests_sent[i].title = "issue" /\ requests_sent[i].ok
    /\ ~Transitioned(requests_sent)
    /\ ~IsNone(TargetStatus)
    /\ remote.ticket_status = TargetStatus

TransitionSent ==
    \E i \in 1..Len(requests_sent) : requests_sent[i].method = "POST"

\* C20: the exit code is 0 exactly when the update succeeded, which is when a
\* transition request was answered with success or the ticket was already in
\* the target status and no transition request was sent; it is 1 otherwise,
\* and in particular with a wrong argument count.
C20_ExitCodeTellsSuccess ==
    pc = "done" =>
        /\ Val(outcome).code \in {0, 1}
        /\ Val(outcome).code = 0 <=>
              \/ Transitioned(requests_sent)
              \/ AlreadyInTarget /\ ~TransitionSent
        /\ Len(argv) \notin {0, 2} => Val(outcome).code = 1

\* the auto mode alone (no arguments)
AutoModeExitCode ==
    (pc = "done" /\ Len(argv) = 0) =>
        (Val(outcome).code = 0 <=>
            \/ Transitioned(requests_sent)
            \/ AlreadyInTarget /\ ~TransitionSent)

(***************************************************************************)
(* mid_sprint_report.py: main, one run.  argv holds the flags given;       *)
(* outcome records the pages handed to publish_to_confluence, in order.    *)
(***************************************************************************)

FlagSets == {<<>>, <<"--force">>, <<"--sprint-end">>, <<"--force", "--sprint-end">>}

HasFlag(flag) == \E i \in 1..Len(argv) : argv[i] = flag

Ran(pages) == Some([kind |-> "returned", pages |-> pages])
RanInto == Some([kind |-> "raised", pages |-> <<>>])

\* is_sprint_ending = is_sprint_end_today(sprint) or args.sprint_end
IsSprintEndingToday == IsSprintEndToday
IsSprintEnding == IsSprintEndToday \/ HasFlag("--sprint-end")

\* `if not args.force and not is_sprint_midpoint_today(sprint) and not is_sprint_ending: return`
NothingDue == ~HasFlag("--force") /\ ~IsSprintMidpointToday /\ ~IsSprintEnding

\* the pages main publishes once a sprint was found
MainPages ==
    IF NothingDue THEN <<>>
    ELSE IF IsSprintEnding THEN <<"Sprint Retrospective">>
    ELSE <<"Mid-Sprint Review">>

\* main: RuntimeError("No active sprint found for board") without a sprint
ReportMain ==
    /\ pc = "start"
    /\ script = "mid_sprint_report"
    /\ outcome' = IF active_sprint THEN Ran(MainPages) ELSE RanInto
    /\ pc' = "done"
    /\ UNCHANGED <<issues, sprint_start, sprint_end, now, metrics, risks, health>>
    /\ UNCHANGED <<matchVars, schedVars, apiVars, script, env, argv, remote, requests_sent>>

MainInit ==
    /\ issues = <<>>
    /\ sprint_start = Some(SprintStartTick)
    /\ sprint_end \in {None, Some(SprintEndTick)}
    /\ now \in 0..LastTick
    /\ metrics = NoMetrics
    /\ risks = NoRisks
    /\ health = NoHealth
    /\ pc = "start"
    /\ MatchIdle
    /\ active_sprint \in BOOLEAN
    /\ next_run = None
    /\ published = <<>>
    /\ ApiIdle
    /\ script = "mid_sprint_report"
    /\ env = {}
    /\ argv \in FlagSets
    /\ remote = <<>>
    /\ requests_sent = <<>>
    /\ outcome = None

MainNext == ReportMain

MainSpec == MainInit /\ [][MainNext]_vars

AiScores == {59, 60}

\* a ticket key that is not among the candidates
UnknownKey == 99

AiSuggestion(key, score) == [ticket |-> key, score |-> score, reason |-> "related"]

AiSuggestions ==
    {AiSuggestion(key, score) : key \in (1..MaxTickets) \cup {UnknownKey}, score \in AiScores}

\* what json.loads(ai_response) gives; ok is FALSE when the call or the parsing
\* raised
AiAnswer(ok, suggestions) == [ok |-> ok, suggestions |-> suggestions]

AiResponses ==
    {AiAnswer(FALSE, <<>>), AiAnswer(TRUE, <<>>)}
    \cup {AiAnswer(TRUE, <<s>>) : s \in AiSuggestions}
    \cup {AiAnswer(TRUE, <<s, t>>) : s, t \in AiSuggestions}

Suggestion(key, score, ai_reason) == [key |-> key, score |-> score, ai_reason |-> ai_reason]

\* list[:n]
FirstN(s, n) == SubSeq(s, 1, Min(n, Len(s)))

\* no OpenAI key: `return candidate_tickets[:5]`, the candidates as they are,
\* with match_score and match_reasons and neither 'score' nor 'ai_reason'
Unscored(candidates) ==
    [k \in 1..Len(FirstN(candidates, 5)) |-> Suggestion(candidates[k].key, None, None)]

\* the except branch: the first five candidates with min(match_score * 10, 100)
\* as score, those under 60 dropped
Fallback(candidates) ==
    LET kept == SelectSeq(FirstN(candidates, 5), LAMBDA t : Min(Val(t.match_score) * 10, 100) >= 60)
    IN  [k \in 1..Len(kept) |->
            Suggestion(kept[k].key, Some(Min(Val(kept[k].match_score) * 10, 100)),
                       Some(FirstN(kept[k].match_reasons, 2)))]

\* the merge loop: suggestions under 60 are skipped, the others are kept when
\* a candidate has their key
IsCandidateKey(candidates, key) == \E k \in 1..Len(candidates) : candidates[k].key = key

Merged(candidates, ai_suggestions) ==
    LET kept == SelectSeq(ai_suggestions,
                          LAMBDA s : s.score >= 60 /\ IsCandidateKey(candidates, s.ticket))
    IN  [k \in 1..Len(kept) |-> Suggestion(kept[k].ticket, Some(kept[k].score), Some(kept[k].reason))]

AiAnalyzeRelevanceOf(candidates, has_key, ai) ==
    IF ~has_key THEN Unscored(candidates)
    ELSE IF candidates = <<>> THEN <<>>
    ELSE IF ~ai.ok THEN Fallback(candidates)
    ELSE Merged(candidates, ai.suggestions)

\* suggest_related_tickets: the candidates of the last run are analyzed
AiAnalyzeRelevance ==
    /\ pc = "match"
    /\ Len(results) >= 1
    /\ \E ai \in AiResponses :
          outcome' = Some(AiAnalyzeRelevanceOf(results[Len(results)],
                                               "OPENAI_API_KEY" \in env, ai))
    /\ requests_sent' = IF "OPENAI_API_KEY" \in env /\ results[Len(results)] # <<>>
                        THEN <<Request("POST", "chat.completions", TRUE)>>
                        ELSE <<>>
    /\ pc' = "analyzed"
    /\ UNCHANGED <<issues, sprint_start, sprint_end, now, metrics, risks, health>>
    /\ UNCHANGED <<matchVars, schedVars, apiVars, script, env, argv, remote>>

AiInit ==
    /\ ReportIdle
    /\ pc = "match"
    /\ changed_files = <<P_auth_api>>
    /\ current_ticket_info \in {None, Some(RefTicket(X_AuthToken, None))}
    /\ all_tickets = <<>>
    /\ results = <<>>
    /\ SchedIdle
    /\ ApiIdle
    /\ script = "ai_ticket_suggester"
    /\ env \in SUBSET {"OPENAI_API_KEY"}
    /\ argv = <<>>
    /\ remote = <<>>
    /\ requests_sent = <<>>
    /\ outcome = None

AiNext ==
    \/ AddTicket(MatchPool, MaxTickets) /\ pc = "match"
    \/ PatternMatch /\ pc = "match"
    \/ AiAnalyzeRelevance

AiSpec == AiInit /\ [][AiNext]_vars

\* the candidates ai_analyze_relevance was called with
Candidates == results[Len(results)]

\* C22: every suggestion ai_analyze_relevance returns carries a score of at
\* least 60 and a reason and has the key of a candidate, on each of its paths.
C22_SuggestionsScoredAndKnown ==
    pc = "analyzed" =>
        \A k \in 1..Len(Val(outcome)) :
            /\ ~IsNone(Val(outcome)[k].score)
            /\ Val(Val(outcome)[k].score) >= 60
            /\ ~IsNone(Val(outcome)[k].ai_reason)
            /\ IsCandidateKey(Candidates, Val(outcome)[k].key)

\* the same with an OpenAI key configured: the AI path and the fallback path
WithKeySuggestionsScored ==
    (pc = "analyzed" /\ "OPENAI_API_KEY" \in env) =>
        \A k \in 1..Len(Val(outcome)) :
            /\ ~IsNone(Val(outcome)[k].score)
            /\ Val(Val(outcome)[k].score) >= 60
            /\ ~IsNone(Val(outcome)[k].ai_reason)
            /\ IsCandidateKey(Candidates, Val(outcome)[k].key)

-----------------------------------------------------------------------------
\* C23: a jira:issue_created webhook whose ticket can be fetched is answered
\* with 200 after the ticket was analyzed, the analysis posted as a comment and
\* the key added to the analyzed set; an event other than ticket creation is
\* answered with 200 and changes neither the analyzed set nor Jira.
C23_WebhookAnalyzesCreatedTickets ==
    /\ [](/\ (/\ response # <<>>
              /\ response[1] = "jira_webhook"
              /\ response[3] = "jira:issue_created"
              /\ response[4] # ""
              /\ response[5])
             => /\ response[2] = 200
                /\ response[4] \in analysis_completed
                /\ response[4] \in jira_comments
                /\ response[4] \in analyzed_tickets_cache
          /\ (/\ response # <<>>
              /\ response[1] = "jira_webhook"
              /\ response[3] # "jira:issue_created")
             => response[2] = 200)
    /\ [][(response'[1] = "jira_webhook" /\ response'[3] # "jira:issue_created")
            => UNCHANGED <<analyzed_tickets_cache, jira_comments>>]_vars

\* the part of C23 that holds: events that are neither creation nor update are
\* answered with 200 and change nothing
OtherEventsIgnored ==
    (/\ response # <<>>
     /\ response[1] = "jira_webhook"
     /\ response[3] \notin {"jira:issue_created", "jira:issue_updated"})
        => response[2] = 200

-----------------------------------------------------------------------------
\* the keys of the issues detect_risks put in blocked_items, in order
BlockedItemKeys == [k \in 1..Len(risks.blocked_items) |-> risks.blocked_items[k].issue.key]

WellFormed == \A k \in 1..Len(issues) : HasFields(issues[k])

\* C24: on a list of well-formed issues compute_metrics and detect_risks agree
\* on the blocked issues: counts.blocked is the number of blocked_items, and
\* the issues selected are the same.
C24_BlockedAgree ==
    (pc \in {"risks", "health"} /\ WellFormed) =>
        /\ metrics.counts.blocked = Len(risks.blocked_items)
        /\ metrics.blocked_keys = BlockedItemKeys

\* C24 witness: of two well-formed issues the second is blocked through its
\* label "Blocked" alone, and both functions select it
C24_Witness ==
    /\ pc = "risks"
    /\ WellFormed
    /\ Len(issues) = 2
    /\ ~IsFlagged(issues[1]) /\ ~HasBlockedLabel(issues[1]) /\ ~HasBlockedStatus(issues[1])
    /\ ~IsFlagged(issues[2]) /\ ~HasBlockedStatus(issues[2])
    /\ issues[2].labels = <<L_Blocked>>
    /\ metrics.counts.blocked = 1
    /\ BlockedItemKeys = <<2>>

(***************************************************************************)
(* format_html as its callers call it: main of mid_sprint_report.py and    *)
(* generate_sprint_report of support_ticket_api.py hand it the issues,     *)
(* scheduler.py, run_midpoint_check.py and sprint_report_api.py do not.    *)
(***************************************************************************)

Callers ==
    {"mid_sprint_report", "support_ticket_api", "scheduler", "run_midpoint_check",
     "sprint_report_api"}

\* the callers that pass issues=issues
PassesIssues(caller) == caller \in {"mid_sprint_report", "support_ticket_api"}

\* `risks = detect_risks(issues or [], start_dt, end_dt) if issues else {}`:
\* without issues the health score is computed on no risks at all
RisksOfReport(caller) ==
    IF PassesIssues(caller) /\ issues # <<>>
    THEN DetectRisksOf(issues, sprint_start, sprint_end, now)
    ELSE NoRisks

FormatHtml ==
    /\ pc = "metrics"
    /\ risks' = RisksOfReport(script)
    /\ health' = HealthScoreOf(metrics, RisksOfReport(script), sprint_start, sprint_end, now)
    /\ pc' = "html"
    /\ UNCHANGED <<issues, sprint_start, sprint_end, now, metrics>>
    /\ UNCHANGED <<matchVars, restVars>>

HtmlPool ==
    {InProgress(None, <<>>, FALSE, f, n) : f \in BOOLEAN, n \in {N_InProgress, N_OnHold}}

HtmlInit ==
    /\ issues = <<>>
    /\ sprint_start = Some(SprintStartTick)
    /\ sprint_end = Some(SprintEndTick)
    /\ now = SprintEndTick - TicksPerDay
    /\ metrics = NoMetrics
    /\ risks = NoRisks
    /\ health = NoHealth
    /\ pc = "input"
    /\ MatchIdle
    /\ SchedIdle
    /\ ApiIdle
    /\ script \in Callers
    /\ env = {}
    /\ argv = <<>>
    /\ remote = <<>>
    /\ requests_sent = <<>>
    /\ outcome = None

HtmlNext ==
    \/ AddIssue(HtmlPool)
    \/ ComputeMetrics
    \/ FormatHtml

HtmlSpec == HtmlInit /\ [][HtmlNext]_vars

\* C25: the health score of a rendered report is the one
\* calculate_sprint_health_score gives for detect_risks of the sprint's issues,
\* whoever the caller: the blocker sub-score is 15 only if the metrics of the
\* report count no blocked issue.
C25_HealthFromDetectedRisks ==
    pc = "html" =>
        /\ health = HealthScoreOf(metrics, DetectRisksOf(issues, sprint_start, sprint_end, now),
                                  sprint_start, sprint_end, now)
        /\ health.breakdown.blockers = 150 => metrics.counts.blocked = 0

\* the callers that pass the issues render the health score of the detected risks
PassingCallersAgree ==
    (pc = "html" /\ PassesIssues(script)) =>
        /\ health = HealthScoreOf(metrics, DetectRisksOf(issues, sprint_start, sprint_end, now),
                                  sprint_start, sprint_end, now)
        /\ health.breakdown.blockers = 150 => metrics.counts.blocked = 0

(***************************************************************************)
(* get_sprint_issues: the pagination loop over the board API and the JQL   *)
(* fallback.  The sprint's issues are numbered 1..total on the server;     *)
(* script holds the running function and its local start_at, issues the    *)
(* list being built, requests_sent the startAt of every page requested.    *)
(***************************************************************************)

MaxTotal == 301

max_results == 100

jql_max_results == 200

\* the issues startAt+1 .. min(startAt+maxResults, total), in order
IssuesFrom(startAt, maxResults, total) ==
    LET n == IF startAt >= total THEN 0
             ELSE IF startAt + maxResults <= total THEN maxResults ELSE total - startAt
    IN [i \in 1..n |-> startAt + i]

\* what GET .../board/{board_id}/sprint/{sprint_id}/issue answers
Page(startAt, maxResults, total) ==
    [issues |-> IssuesFrom(startAt, maxResults, total), total |-> total]

\* what _get does with it: the page, or RuntimeError "Atlassian API error ..."
GetOutcomes == {"ok", "does not support sprints", "error"}

\* `if start_at + max_results >= page.get("total", 0): break`
LastPageStrict(start_at, page) == start_at + max_results > page.total
LastPage(start_at, page) == start_at + max_results >= page.total

Frame(start_at) == [fn |-> "get_sprint_issues", start_at |-> start_at]

\* `if board_id:` with start_at = 0 and issues = []
EnterGetSprintIssues ==
    /\ pc = "start"
    /\ pc' = IF argv # None THEN "loop" ELSE "fallback"
    /\ UNCHANGED <<issues, sprint_start, sprint_end, now, metrics, risks, health>>
    /\ UNCHANGED <<matchVars, schedVars, apiVars, scriptVars>>

\* one turn of `while True:`
FetchPage ==
    /\ pc = "loop"
    /\ \E got \in GetOutcomes :
        LET page == Page(script.start_at, max_results, remote.total)
        IN /\ requests_sent' = Append(requests_sent, script.start_at)
           /\ IF got = "ok"
              THEN /\ issues' = issues \o page.issues
                   /\ response' = page
                   /\ IF LastPage(script.start_at, page)
                      THEN /\ pc' = "done"
                           /\ outcome' = [kind |-> "board", issues |-> issues \o page.issues]
                           /\ script' = script
                      ELSE /\ pc' = "loop"
                           /\ script' = Frame(script.start_at + max_results)
                           /\ outcome' = outcome
              ELSE /\ issues' = issues
                   /\ response' = response
                   /\ script' = script
                   /\ IF got = "does not support sprints"
                      THEN pc' = "fallback" /\ outcome' = outcome
                      ELSE pc' = "raised" /\ outcome' = [kind |-> "RuntimeError", issues |-> <<>>]
    /\ UNCHANGED <<sprint_start, sprint_end, now, metrics, risks, health>>
    /\ UNCHANGED <<matchVars, schedVars, env, argv, remote>>
    /\ UNCHANGED <<analyzed_tickets_cache, analysis_completed, marker_found, jira_comments>>

\* `data = _search_jql(jql, fields, max_results=200); return data.get("issues", [])`
SearchJqlFallback ==
    /\ pc = "fallback"
    /\ \E ok \in BOOLEAN :
        IF ok
        THEN /\ pc' = "done"
             /\ outcome' = [kind |-> "jql", issues |-> IssuesFrom(0, jql_max_results, remote.total)]
        ELSE /\ pc' = "raised"
             /\ outcome' = [kind |-> "RuntimeError", issues |-> <<>>]
    /\ UNCHANGED <<issues, sprint_start, sprint_end, now, metrics, risks, health>>
    /\ UNCHANGED <<matchVars, schedVars, apiVars, script, env, argv, remote, requests_sent>>

PageInit ==
    /\ ReportIdle
    /\ pc = "start"
    /\ MatchIdle
    /\ SchedIdle
    /\ ApiIdle
    /\ script = Frame(0)
    /\ env = {}
    /\ argv \in {None, Some("board")}
    /\ remote \in {[total |-> t] : t \in 0..MaxTotal}
    /\ requests_sent = <<>>
    /\ outcome = None

PageNext ==
    \/ EnterGetSprintIssues
    \/ FetchPage
    \/ SearchJqlFallback

\* the interpreter keeps running the function until it returns or raises
PageSpec == PageInit /\ [][PageNext]_vars /\ WF_vars(PageNext)

\* the number of pages of max_results issues that cover offsets 0 .. total
PagesUpTo(total) ==
    IF total = 0 THEN 1 ELSE (total + max_results - 1) \div max_results

ReturnedFromBoard == pc = "done" /\ outcome.kind = "board"

\* C26: the pagination loop of get_sprint_issues ends for every finite total,
\* and a list returned by the loop is the issues of the pages at offsets
\* 0, max_results, 2*max_results, ... below total, each page requested exactly
\* once and in that order.
C26_PaginationEndsWithEveryPage ==
    /\ <>(pc \in {"done", "raised"})
    /\ [](ReturnedFromBoard =>
            /\ requests_sent = [i \in 1..PagesUpTo(remote.total) |-> (i - 1) * max_results]
            /\ outcome.issues = [i \in 1..remote.total |-> i])

C26_Witness ==
    /\ ReturnedFromBoard
    /\ Len(requests_sent) = 3
    /\ Len(outcome.issues) = 3 * max_results

(***************************************************************************)
(* publish_to_confluence called again and again with the same title and    *)
(* parent title: published collects what each call gave back,              *)
(* requests_sent holds the requests of the latest call.                    *)
(***************************************************************************)

MaxCalls == 3

PublishAgain ==
    /\ pc = "start"
    /\ script = "publish_to_confluence"
    /\ Len(published) < MaxCalls
    /\ \E okParent, okCreateParent, okFind, okWrite, parsed \in BOOLEAN :
          IF okParent /\ ~parsed
          THEN /\ requests_sent' = <<Request("GET", "parent", okParent)>>
               /\ outcome' = RaisedError
               /\ published' = Append(published, RaisedError)
               /\ UNCHANGED remote
          ELSE /\ requests_sent' = ParentRequests(okParent, okCreateParent)
                                       \o ReportRequests(okFind, okWrite)
               /\ remote' = AfterReport(AfterParent(okParent, okCreateParent), okFind, okWrite)
               /\ outcome' = ReturnedPage(PublishedPageId(okFind, okWrite))
               /\ published' = Append(published, ReturnedPage(PublishedPageId(okFind, okWrite)))
    /\ UNCHANGED <<issues, sprint_start, sprint_end, now, metrics, risks, health, pc>>
    /\ UNCHANGED <<matchVars, active_sprint, next_run, apiVars, script, env, argv>>

AgainInit ==
    /\ ReportIdle
    /\ MatchIdle
    /\ SchedIdle
    /\ ApiIdle
    /\ pc = "start"
    /\ script = "publish_to_confluence"
    /\ env = {}
    /\ argv = <<>>
    /\ remote \in [PageTitles -> {None} \cup {Some(v) : v \in 1..MaxVersion}]
    /\ requests_sent = <<>>
    /\ outcome = None

AgainNext == PublishAgain

AgainSpec == AgainInit /\ [][AgainNext]_vars

\* a call of publish_to_confluence returned a URL in this step
CallReturned ==
    /\ Len(published') = Len(published) + 1
    /\ Val(outcome').kind = "returned"

\* what a call leaves when it created the missing pages and updated the
\* existing report page with version number = current version + 1
CreatedOrUpdated ==
    /\ ~IsNone(remote'["parent"])
    /\ remote'["report"] = IF IsNone(remote["report"]) THEN Some(1)
                           ELSE Some(Val(remote["report"]) + 1)
    /\ remote'["parent"] = IF IsNone(remote["parent"]) THEN Some(1) ELSE remote["parent"]

\* C27: publish_to_confluence is idempotent by title: a call that returns has
\* created the report page (and the parent page) when there was none and
\* otherwise updated the existing page with version number = current
\* version + 1, so the space never holds a second page of either title.
C27_CreateOnceThenUpdate == [][CallReturned => CreatedOrUpdated]_vars

\* every request of the call was answered with a 2xx status
AllAnswered == \A i \in 1..Len(requests_sent') : requests_sent'[i].ok

\* calls whose requests all succeeded do create once and update afterwards
AnsweredCallsCreateOnceThenUpdate ==
    [][(CallReturned /\ AllAnswered) => CreatedOrUpdated]_vars

(***************************************************************************)
(* Two /api/generate-sprint-report requests for the same sprint and date,  *)
(* served by two threads of app.run(threaded=True).  Each thread runs      *)
(* publish_to_confluence with the same two titles and no lock; a step is   *)
(* one Confluence request.  pc maps a thread to its position, script to    *)
(* its locals (parent, existing), response to its answer, requests_sent    *)
(* holds the write requests in the order Confluence received them.         *)
(* Every request gets an answer; Confluence refuses a second page of one   *)
(* title and an update whose version number is not current version + 1.    *)
(***************************************************************************)

Threads == {1, 2}

Locals(parent, existing) == [parent |-> parent, existing |-> existing]

WriteRequest(t, method, title, version, applied) ==
    [thread |-> t, method |-> method, title |-> title, version |-> version, applied |-> applied]

\* `parent = uploader.find_existing_page(parent_title)`
FindParent(t) ==
    /\ pc[t] = "find_parent"
    /\ script' = [script EXCEPT ![t].parent = remote["parent"]]
    /\ pc' = [pc EXCEPT ![t] = IF IsNone(remote["parent"]) THEN "create_parent" ELSE "find"]
    /\ UNCHANGED <<remote, requests_sent, response>>

\* `parent_id = uploader.create_page(parent_title, parent_content)`
CreateParent(t) ==
    /\ pc[t] = "create_parent"
    /\ requests_sent' = Append(requests_sent,
                               WriteRequest(t, "POST", "parent", 1, IsNone(remote["parent"])))
    /\ remote' = IF IsNone(remote["parent"]) THEN [remote EXCEPT !["parent"] = Some(1)] ELSE remote
    /\ pc' = [pc EXCEPT ![t] = "find"]
    /\ UNCHANGED <<script, response>>

\* `existing = uploader.find_existing_page(title)`
FindReport(t) ==
    /\ pc[t] = "find"
    /\ script' = [script EXCEPT ![t].existing = remote["report"]]
    /\ pc' = [pc EXCEPT ![t] = "write"]
    /\ UNCHANGED <<remote, requests_sent, response>>

\* update_page(page_id, title, html, existing["version"]["number"], parent_id)
\* or create_page(title, html, parent_id); neither result is looked at and the
\* handler answers 200 with success
WriteReport(t) ==
    /\ pc[t] = "write"
    /\ LET existing == script[t].existing
           version == IF IsNone(existing) THEN 1 ELSE Val(existing) + 1
           applied == IF IsNone(existing) THEN IsNone(remote["report"])
                      ELSE remote["report"] = existing
       IN /\ requests_sent' = Append(requests_sent,
                  WriteRequest(t, IF IsNone(existing) THEN "POST" ELSE "PUT", "report",
                               version, applied))
          /\ remote' = IF applied THEN [remote EXCEPT !["report"] = Some(version)] ELSE remote
    /\ response' = [response EXCEPT ![t] = Some("success")]
    /\ pc' = [pc EXCEPT ![t] = "done"]
    /\ UNCHANGED script

ThreadStep(t) ==
    /\ \/ FindParent(t)
       \/ CreateParent(t)
       \/ FindReport(t)
       \/ WriteReport(t)
    /\ UNCHANGED <<issues, sprint_start, sprint_end, now, metrics, risks, health>>
    /\ UNCHANGED <<matchVars, schedVars, env, argv, outcome>>
    /\ UNCHANGED <<analyzed_tickets_cache, analysis_completed, marker_found, jira_comments>>

ThreadedInit ==
    /\ ReportIdle
    /\ MatchIdle
    /\ SchedIdle
    /\ analyzed_tickets_cache = {}
    /\ analysis_completed = {}
    /\ marker_found = {}
    /\ jira_comments = {}
    /\ pc = [t \in Threads |-> "find_parent"]
    /\ script = [t \in Threads |-> Locals(None, None)]
    /\ response = [t \in Threads |-> None]
    /\ env = {}
    /\ argv = <<>>
    /\ remote \in [PageTitles -> {None} \cup {Some(v) : v \in 1..MaxVersion}]
    /\ requests_sent = <<>>
    /\ outcome = None

ThreadedNext == \E t \in Threads : ThreadStep(t)

ThreadedSpec == ThreadedInit /\ [][ThreadedNext]_vars

\* two write requests for the report page that came from different threads
\* and are both creations or both updates with the same version number
SameWriteTwice ==
    \E i, j \in 1..Len(requests_sent) :
        /\ requests_sent[i].thread # requests_sent[j].thread
        /\ requests_sent[i].title = "report" /\ requests_sent[j].title = "report"
        /\ requests_sent[i].method = requests_sent[j].method
        /\ requests_sent[i].version = requests_sent[j].version

WriteApplied(t) ==
    \E i \in 1..Len(requests_sent) :
        /\ requests_sent[i].thread = t
        /\ requests_sent[i].title = "report"
        /\ requests_sent[i].applied

\* C28: two concurrent requests for the same sprint and date never both take
\* the create branch nor both send an update with the same version number,
\* and a request that answered success has had its page write applied.
C28_ConcurrentPublishesDoNotCollide ==
    /\ ~SameWriteTwice
    /\ \A t \in Threads : response[t] = Some("success") => WriteApplied(t)

\* the find and the write of one thread either both come before or both come
\* after those of the other
OneAfterTheOther ==
    \E t \in Threads : pc[t] = "find_parent" \/ pc[t] = "done"

\* requests served one after the other do not collide
SerialPublishesDoNotCollide ==
    [](OneAfterTheOther) => [](C28_ConcurrentPublishesDoNotCollide)

(***************************************************************************)
(* ConfluenceUploader.upload run after run over the documentation files of *)
(* one service.  script maps a file to its current content (a revision     *)
(* number), outcome is file_hashes.json (file -> Optional hash), remote    *)
(* maps a file to the content its Confluence page holds, requests_sent     *)
(* holds the page writes of the latest run.                                *)
(***************************************************************************)

DocFiles == {"api.md", "setup.md"}

MaxRevision == 2

\* get_file_hash: the MD5 digest of the content
GetFileHash(content) == <<"md5", content>>

\* has_file_changed: current_hash != hashes.get(file_path)
HasFileChanged(f, hashes) == hashes[f] # Some(GetFileHash(script[f]))

UploadRequest(f, ok) == [file |-> f, ok |-> ok]

\* `updated_hashes[f] = self.get_file_hash(f)` after the create or update of a
\* changed file, whatever its result
UpdatedHashes(hashes) ==
    [f \in DocFiles |-> IF HasFileChanged(f, hashes) THEN Some(GetFileHash(script[f]))
                        ELSE hashes[f]]

\* the pages after the run's requests (oks: which requests were answered 2xx)
UploadedPages(hashes, oks) ==
    [f \in DocFiles |-> IF HasFileChanged(f, hashes) /\ oks[f] THEN Some(script[f])
                        ELSE remote[f]]

RECURSIVE UploadRequests(_, _, _)
UploadRequests(files, hashes, oks) ==
    IF files = {} THEN <<>>
    ELSE LET f == CHOOSE x \in files : \A y \in files : Len(x) <= Len(y)
         IN (IF HasFileChanged(f, hashes) THEN <<UploadRequest(f, oks[f])>> ELSE <<>>)
                \o UploadRequests(files \ {f}, hashes, oks)

\* one run of upload(); when test_connection fails it returns False at once
Upload ==
    /\ pc = "start"
    /\ \E connected \in BOOLEAN, oks \in [DocFiles -> BOOLEAN] :
          IF connected
          THEN /\ outcome' = UpdatedHashes(outcome)
               /\ remote' = UploadedPages(outcome, oks)
               /\ requests_sent' = UploadRequests(DocFiles, outcome, oks)
          ELSE /\ requests_sent' = <<>>
               /\ UNCHANGED <<outcome, remote>>
    /\ UNCHANGED <<issues, sprint_start, sprint_end, now, metrics, risks, health, pc>>
    /\ UNCHANGED <<matchVars, schedVars, apiVars, script, env, argv>>

\* somebody edits a documentation file between two runs
EditFile ==
    /\ pc = "start"
    /\ \E f \in DocFiles :
          /\ script[f] < MaxRevision
          /\ script' = [script EXCEPT ![f] = script[f] + 1]
    /\ UNCHANGED <<issues, sprint_start, sprint_end, now, metrics, risks, health, pc>>
    /\ UNCHANGED <<matchVars, schedVars, apiVars, env, argv, remote, requests_sent, outcome>>

UploadInit ==
    /\ ReportIdle
    /\ MatchIdle
    /\ SchedIdle
    /\ ApiIdle
    /\ pc = "start"
    /\ script = [f \in DocFiles |-> 1]
    /\ env = {}
    /\ argv = <<>>
    /\ remote = [f \in DocFiles |-> None]
    /\ requests_sent = <<>>
    /\ outcome = [f \in DocFiles |-> None]

UploadNext ==
    \/ Upload
    \/ EditFile

UploadSpec == UploadInit /\ [][UploadNext]_vars

\* C29: a file's stored hash equals its current content hash only if a page
\* create or update for that content succeeded; a file whose upload request
\* failed keeps its old (or no) hash and is uploaded again on the next run.
C29_HashOnlyAfterSuccessfulUpload ==
    \A f \in DocFiles :
        outcome[f] = Some(GetFileHash(script[f])) => remote[f] = Some(script[f])

\* a run uploads only files whose content hash differs from the stored one:
\* a file unchanged since the run that stored its hash is skipped
UnchangedFilesAreSkipped ==
    [][requests_sent' # requests_sent =>
          \A i \in 1..Len(requests_sent') :
              HasFileChanged(requests_sent'[i].file, outcome)]_vars
(***************************************************************************)
(* Requirement pages: main of scripts/process_new_requirements.py and the  *)
(* command it names for a page, confluence_llm_jira_automation.py          *)
(* --page-id, whose __main__ runs process_confluence_page.  remote maps a  *)
(* page to its llm-jira-processed label, the number of Jira tickets        *)
(* created for it and whether the "AI Jira Sync" section was written;      *)
(* outcome is how the latest run ended.                                    *)
(***************************************************************************)

ReqPages == {"req-1", "req-2"}

MaxRequirements == 2

MaxCreated == 3

ReqPage(labelled, tickets, synced) ==
    [labelled |-> labelled, tickets |-> tickets, synced |-> synced]

RunEnded(name, page, exit_code) == [script |-> name, page |-> page, exit_code |-> exit_code]

\* process_confluence_page: get_page_details and llm_extract raise on failure,
\* create_jira_ticket is called for every requirement and answers None when
\* Jira refused, update_confluence_page comes last and raises on failure; an
\* uncaught exception ends the interpreter with exit code 1
ProcessConfluencePage ==
    /\ pc = "start"
    /\ \E p \in ReqPages, okPage, okExtract, okUpdate \in BOOLEAN, created \in 0..MaxRequirements :
          /\ remote[p].tickets + created <= MaxCreated
          /\ IF ~okPage \/ ~okExtract
             THEN /\ outcome' = RunEnded("confluence_llm_jira_automation", p, 1)
                  /\ UNCHANGED remote
             ELSE /\ remote' = [remote EXCEPT ![p] =
                                   ReqPage(@.labelled, @.tickets + created, @.synced \/ okUpdate)]
                  /\ outcome' = RunEnded("confluence_llm_jira_automation", p,
                                         IF okUpdate THEN 0 ELSE 1)
    /\ UNCHANGED <<issues, sprint_start, sprint_end, now, metrics, risks, health, pc>>
    /\ UNCHANGED <<matchVars, schedVars, apiVars, script, env, argv, requests_sent>>

\* main: the module imports os, requests and sys only, so the first page
\* without the label ends the run with NameError at `subprocess.run(`; a
\* failed search or label request raises as well
ProcessNewRequirements ==
    /\ pc = "start"
    /\ \E okSearch, okLabels \in BOOLEAN :
          outcome' = RunEnded("process_new_requirements", "",
                              IF okSearch /\ okLabels /\ \A p \in ReqPages : remote[p].labelled
                              THEN 0 ELSE 1)
    /\ UNCHANGED <<issues, sprint_start, sprint_end, now, metrics, risks, health, pc>>
    /\ UNCHANGED <<matchVars, schedVars, apiVars, script, env, argv, remote, requests_sent>>

ReqInit ==
    /\ ReportIdle
    /\ MatchIdle
    /\ SchedIdle
    /\ ApiIdle
    /\ pc = "start"
    /\ script = "process_new_requirements"
    /\ env = {}
    /\ argv = <<>>
    /\ remote \in [ReqPages -> {ReqPage(l, 0, FALSE) : l \in BOOLEAN}]
    /\ requests_sent = <<>>
    /\ outcome = RunEnded("", "", 0)

ReqNext ==
    \/ ProcessConfluencePage
    \/ ProcessNewRequirements

ReqSpec == ReqInit /\ [][ReqNext]_vars

\* the step is a processing run of page p that ended with this exit code
Processed(p, exit_code) ==
    outcome' = RunEnded("confluence_llm_jira_automation", p, exit_code)

\* C30: each requirement page has its Jira tickets created at most once: a
\* labelled page is never processed again, the label is added only after the
\* page's processing exited with code 0, and a page whose processing failed is
\* left unlabelled without tickets having been created for it.
C30_TicketsCreatedAtMostOnce ==
    [][\A p \in ReqPages :
          /\ remote'[p].tickets > remote[p].tickets =>
                (remote[p].tickets = 0 /\ ~remote[p].labelled)
          /\ (remote'[p].labelled /\ ~remote[p].labelled) => Processed(p, 0)
          /\ Processed(p, 1) => remote'[p].tickets = remote[p].tickets]_vars

\* process_new_requirements itself never creates a ticket or touches a page,
\* and it ends normally only when every page carries the label
MainProcessesNothing ==
    [][outcome'.script = "process_new_requirements" =>
          /\ remote' = remote
          /\ outcome'.exit_code = 0 => \A p \in ReqPages : remote[p].labelled]_vars

=============================================================================
